---- MODULE Spec2Model ----
(***************************************************************************)
(* Verification model of the PTGC / UFO dashboard data fetchers.           *)
(*                                                                         *)
(* The specifications of this module:                                     *)
(*   SpecMerge    mergeBurns as a pure function of (existing, incoming)    *)
(*   SpecPeriods  calculatePeriods / calculatePeriodBurns as pure          *)
(*                functions of (burns, now)                                *)
(*   Spec         the burn-history scripts run after run: paginated fetch, *)
(*                merge with the persisted history, write of the file, for *)
(*                the four script variants of the repository               *)
(*   FairSpec     Spec with a script that keeps taking its next step       *)
(*   SpecRollup   the metrics collector's rollupSnapshots, run after run   *)
(*   SpecFilter   record construction and filterBuybackBurns               *)
(*   SpecRetry    the request helpers fetchAPI and fetchWithRetry          *)
(*   SpecScripts  the order of reads, requests and writes of each script   *)
(*   SpecDriver   the requests of a run, one at a time                     *)
(*   SpecSplit    the period files: split, write, load                     *)
(*   SpecSnapshots  the daily snapshot list of the burn-history scripts    *)
(*   SpecWallet   the merge step of the treasury's fetchWalletTransactions *)
(*   SpecMetrics  main of the metrics collector over both tokens           *)
(*                                                                         *)
(* Encoding of JavaScript values: an absent (undefined) numeric field is   *)
(* 0, which is also how the code's `x || y` treats it; an absent txHash is *)
(* NoTx.  Time is counted in units of 1000 ms so that the 30 and 90 day    *)
(* windows stay inside TLC's 32 bit integers; every window of the code is  *)
(* a multiple of 1000 ms.                                                  *)
(***************************************************************************)
EXTENDS Integers, Sequences, FiniteSets, TLC

VARIABLES
    \* ---- SpecMerge ----
    existingBurns,    \* mergeBurns argument: the history loaded from disk
    incomingBurns,    \* mergeBurns argument: the freshly fetched records
    merged,           \* mergeBurns(existingBurns, incomingBurns)
    mergedAgain,      \* mergeBurns(merged, incomingBurns)
    mpc,              \* "in" | "once" | "twice"
    \* ---- SpecPeriods ----
    burns,            \* argument of the period aggregators
    now,              \* Date.now() of the call
    periods,          \* result of calculatePeriods
    periodBurns,      \* result of calculatePeriodBurns
    ppc,              \* "in" | "periods" | "out"
    \* ---- Spec ----
    variant,          \* which script runs: "basic" | "moralis" | "v3" | "opt"
    ledger,           \* the provider's transfers, oldest first
    file,             \* burns array of the persisted burn-history.json
    pc,               \* "idle" | "fetch" | "backoff" | "merge"
    existing,         \* burns array read from the file at the start of the run
    lastTimestamp,    \* watermark of the run
    nextPageParams,   \* cursor: number of ledger records already served
    page,             \* page counter of the pagination loop
    newBurns,         \* records collected by the run so far
    reachedOldData,   \* flag of the pagination loop
    consecutiveErrors,\* counter of the pagination loop
    lastResp,         \* outcome of the last page request: "none" | "ok" | "error"
    totals,           \* totalBurned and burnCount of the persisted file
    \* ---- SpecRollup ----
    tokenData,        \* history[tokenName]: [snapshots, hourly, daily]
    clock,            \* time of the run, in units of 15 minutes
    rpc,              \* "run" while the metrics collector is modelled
    groups,           \* hourlyGroups and dailyGroups of the last rollupSnapshots
    \* ---- SpecFilter ----
    txs,              \* transfers of the provider's response
    diskBurns,        \* burns array loaded from the file
    lpPairAddress,    \* argument of filterBuybackBurns
    allBurns,         \* result of fetchAllBurns
    buybacks,         \* result of filterBuybackBurns
    fpc,              \* "in" | "fetched" | "filtered"
    \* ---- SpecRetry ----
    fn,               \* the function called: "fetchAPI" | "fetchWithRetry" | "fetchWithRetryOpt"
    endpoint,         \* its first argument
    retries,          \* its second argument
    attempt,          \* number of the attempt under way, from 1
    requests,         \* requests issued so far, with the response each got
    slept,            \* durations of the waits so far, in ms
    delivered,        \* values handed to the caller
    rstate,           \* "request" | "wait" | "returned" | "thrown"
    \* ---- SpecScripts ----
    script,           \* the script that runs
    keySet,           \* the API key variable is set in the environment
    stage,            \* index into Stages(script)
    sstate,           \* "run" | "exit1" | "rejected" | "done"
    todo,             \* fetcher calls the run has still to make
    log,              \* file and network events of the run, in order
    lastCall,         \* the last fetcher call: [call, outcome, value]
    failures,         \* fetcher calls whose request failed
    \* ---- SpecDriver ----
    drv,              \* the driver loop: "coingecko" | "treasury"
    calls,            \* fetcher calls the loop has still to make, current one first
    dphase,           \* "ready" | "awaiting" | "sleeping" | "done"
    dattempt,         \* requests the current call has issued
    issued,           \* requests the run has issued
    inflight,         \* requests issued and not yet completed
    \* ---- SpecSplit ----
    ptgcBurns,        \* the PTGC history of the run, as fetchAllBurns returned it
    byPeriod,         \* splitBurnsByPeriod(ptgcBurns)
    periodFiles,      \* the ptgc-burns-<period>.json files on disk
    loadedBurns,      \* loadExistingBurns of the following run
    spc,              \* "in" | "written" | "loaded"
    \* ---- SpecSnapshots ----
    snapshotFile,     \* PTGC.snapshots of the persisted file
    today,            \* date of the run, as a day number
    existingSnapshots, \* existingData?.PTGC?.snapshots || [] of the run
    daySnapshot,      \* ptgcSnapshot of the run
    npc,              \* "new" | "ran"
    \* ---- SpecWallet ----
    existingTxns,     \* the wallet's transactions loaded from the file
    newTxns,          \* the transactions the run fetched
    allTxns,          \* the merged list the run returns
    allTxnsAgain,     \* the merge of newTxns into allTxns
    wpc,              \* "in" | "merged" | "again"
    \* ---- SpecMetrics ----
    metricsFile,      \* content of metrics-history.json
    history,          \* the history object of the run
    loadedHistory,    \* the history as loadMetricsHistory returned it
    mclock,           \* time of the run, in units of 15 minutes
    collected,        \* what collectTokenMetrics returned, token after token
    mstate            \* "idle" | "loop"

mergeVars   == <<existingBurns, incomingBurns, merged, mergedAgain, mpc>>
periodVars  == <<burns, now, periods, periodBurns, ppc>>
runVars     == <<variant, ledger, file, pc, existing, lastTimestamp,
                 nextPageParams, page, newBurns, reachedOldData,
                 consecutiveErrors, lastResp, totals>>
rollupVars  == <<tokenData, clock, rpc, groups>>
\* the variables of the specifications that follow the burn-history scripts
filterVars  == <<txs, diskBurns, lpPairAddress, allBurns, buybacks, fpc>>
retryVars   == <<fn, endpoint, retries, attempt, requests, slept, delivered, rstate>>
scriptVars  == <<script, keySet, stage, sstate, todo, log, lastCall, failures>>
driverVars  == <<drv, calls, dphase, dattempt, issued, inflight>>
splitVars   == <<ptgcBurns, byPeriod, periodFiles, loadedBurns, spc>>
snapshotVars == <<snapshotFile, today, existingSnapshots, daySnapshot, npc>>
walletVars  == <<existingTxns, newTxns, allTxns, allTxnsAgain, wpc>>
metricsVars == <<metricsFile, history, loadedHistory, mclock, collected, mstate>>
auxVars     == <<rollupVars, filterVars, retryVars, scriptVars, driverVars, splitVars,
                 snapshotVars,
                 walletVars,
                 metricsVars>>
vars        == <<mergeVars, periodVars, runVars, auxVars>>

----------------------------------------------------------------------------
(* Generic helpers on sequences                                            *)

Range(s) == {s[i] : i \in DOMAIN s}

SeqsUpTo(S, n) == UNION {[1..k -> S] : k \in 0..n}

Prefix(s, n) == SubSeq(s, 1, IF n < Len(s) THEN n ELSE Len(s))

\* Array.prototype.filter, given the set of indexes whose element passes
FilterAt(s, keep) ==
    LET acc[i \in 0..Len(s)] ==
            IF i = 0 THEN <<>>
            ELSE IF i \in keep THEN Append(acc[i - 1], s[i]) ELSE acc[i - 1]
    IN  acc[Len(s)]

\* Array.prototype.sort with the comparator (a, b) => K(b) - K(a): stable,
\* descending in K.  Works on <<key, element>> pairs; an element is inserted
\* after every element whose key is >= its own.
RECURSIVE InsertDesc(_, _)
InsertDesc(sorted, x) ==
    IF sorted = <<>> THEN <<x>>
    ELSE IF Head(sorted)[1] >= x[1]
         THEN <<Head(sorted)>> \o InsertDesc(Tail(sorted), x)
         ELSE <<x>> \o sorted

RECURSIVE SortPairsDesc(_, _)
SortPairsDesc(acc, s) ==
    IF s = <<>> THEN acc
    ELSE SortPairsDesc(InsertDesc(acc, Head(s)), Tail(s))

SortKeyed(keyed) ==
    LET sorted == SortPairsDesc(<<>>, keyed)
    IN  [i \in DOMAIN sorted |-> sorted[i][2]]

----------------------------------------------------------------------------
(* Burn records.  One shape for every variant:                             *)
(*   id         identity of the provider transfer the record came from;    *)
(*              never read by the code's operators, used only to state     *)
(*              properties (0 where the record has no provider origin)     *)
(*   t          compact timestamp field of the persisted format (0 absent) *)
(*   timestamp  timestamp field of the in-memory format (0 absent)         *)
(*   amount     the a / amount field                                       *)
(*   txHash     transaction identifier, NoTx when absent                   *)
(*   f          lower-cased sender address ("" absent)                     *)

NoTx == 0

Burn(id, t, timestamp, amount, txHash, f) ==
    [id |-> id, t |-> t, timestamp |-> timestamp, amount |-> amount,
     txHash |-> txHash, f |-> f]

----------------------------------------------------------------------------
(* mergeBurns, src/unnamed/part_001:1181-1195                              *)

\* existingBurns.map(b => b.txHash || b.t): a string when the record has a
\* transaction hash, else the number t, else undefined.  The tag keeps the
\* three JavaScript types apart, as Set membership (SameValueZero) does.
ExistingKey(b) ==
    IF b.txHash # NoTx THEN <<"string", b.txHash>>
    ELSE IF b.t # 0 THEN <<"number", b.t>>
    ELSE <<"undefined", 0>>

\* the value burn.txHash looked up in, and added to, the Set
IncomingKey(burn) ==
    IF burn.txHash # NoTx THEN <<"string", burn.txHash>> ELSE <<"undefined", 0>>

\* (b.timestamp || b.t) of the sort comparator
SortTime(b) == IF b.timestamp # 0 THEN b.timestamp ELSE b.t

\* s.sort((a, b) => (b.timestamp || b.t) - (a.timestamp || a.t))
SortByTime(s) == SortKeyed([i \in DOMAIN s |-> <<SortTime(s[i]), s[i]>>])

\* the for loop of mergeBurns: push the records whose txHash is not in the Set
RECURSIVE MergeLoop(_, _, _)
MergeLoop(mergedSoFar, txHashSet, rest) ==
    IF rest = <<>> THEN mergedSoFar
    ELSE IF IncomingKey(Head(rest)) \notin txHashSet
         THEN MergeLoop(Append(mergedSoFar, Head(rest)),
                        txHashSet \cup {IncomingKey(Head(rest))}, Tail(rest))
         ELSE MergeLoop(mergedSoFar, txHashSet, Tail(rest))

\* mutant: the membership test looks up burn.t, which fetched records do not
\* have, so nothing is ever recognised as already present
mergeBurns_NoDedupe(existingBurns_, newBurns_) ==
    SortByTime(existingBurns_ \o newBurns_)

\* mutant: the comparator is (a, b) => a - b, ascending
mergeBurns_Ascending(existingBurns_, newBurns_) ==
    LET desc == SortByTime(MergeLoop(existingBurns_,
                    {ExistingKey(b) : b \in Range(existingBurns_)}, newBurns_))
    IN  [i \in 1..Len(desc) |-> desc[Len(desc) + 1 - i]]

\* mutant: merged starts from existingBurns.filter(b => b.txHash), which loses
\* the records of the legacy format
mergeBurns_DropLegacy(existingBurns_, newBurns_) ==
    LET hasTx == {i \in DOMAIN existingBurns_ : existingBurns_[i].txHash # NoTx}
    IN  SortByTime(MergeLoop(FilterAt(existingBurns_, hasTx),
                     {ExistingKey(b) : b \in Range(existingBurns_)}, newBurns_))

mergeBurns(existingBurns_, newBurns_) ==
    SortByTime(MergeLoop(existingBurns_,
                   {ExistingKey(b) : b \in Range(existingBurns_)}, newBurns_))

----------------------------------------------------------------------------
(* SpecMerge: mergeBurns applied to bounded inputs, then applied again to  *)
(* its own result with the same incoming list.                             *)

MaxExisting == 2
MaxIncoming == 2

MergeTimes   == {1000, 2000}
MergeAmounts == {3, 5}
TxIds        == {1, 2}

\* a record of the persisted history as main of the OPTIMIZED variant hands
\* it to mergeBurns: {...b, timestamp: b.t, amount: b.a, txHash: b.tx}
\* (src/unnamed/part_001:1326); txHash is absent for the legacy format
ExistingRecs ==
    {Burn(0, t, t, a, tx, "") :
        t \in MergeTimes, a \in MergeAmounts, tx \in TxIds \cup {NoTx}}

\* a record as fetchBurnTransfers pushes it: timestamp, amount, txHash and no
\* t field (src/unnamed/part_001:975-980)
IncomingRecs ==
    {Burn(0, 0, ts, a, tx, "") :
        ts \in MergeTimes, a \in MergeAmounts, tx \in TxIds}

\* the persisted history is sorted by timestamp descending and carries no
\* transaction identifier twice
IsHistory(h) ==
    /\ \A i \in DOMAIN h : \A j \in DOMAIN h : i < j => h[i].t >= h[j].t
    /\ \A i \in DOMAIN h : \A j \in DOMAIN h :
          (i # j /\ h[i].txHash # NoTx) => h[i].txHash # h[j].txHash

RollupIdle ==
    /\ tokenData = <<>> /\ clock = 0 /\ rpc = "off" /\ groups = <<>>

FilterIdle ==
    /\ txs = <<>> /\ diskBurns = <<>> /\ lpPairAddress = <<>>
    /\ allBurns = <<>> /\ buybacks = <<>> /\ fpc = "off"

RetryIdle ==
    /\ fn = "none" /\ endpoint = "none" /\ retries = 0 /\ attempt = 0
    /\ requests = <<>> /\ slept = <<>> /\ delivered = <<>> /\ rstate = "off"

ScriptsIdle ==
    /\ script = "none" /\ keySet = FALSE /\ stage = 0 /\ sstate = "off"
    /\ todo = <<>> /\ log = <<>> /\ lastCall = <<>> /\ failures = 0

DriverIdle ==
    /\ drv = "none" /\ calls = <<>> /\ dphase = "off"
    /\ dattempt = 0 /\ issued = 0 /\ inflight = {}

SplitIdle ==
    /\ ptgcBurns = <<>> /\ byPeriod = <<>> /\ periodFiles = <<>>
    /\ loadedBurns = <<>> /\ spc = "off"

SnapshotsIdle ==
    /\ snapshotFile = <<>> /\ today = 0 /\ existingSnapshots = <<>>
    /\ daySnapshot = <<>> /\ npc = "off"

WalletIdle ==
    /\ existingTxns = <<>> /\ newTxns = <<>> /\ allTxns = <<>>
    /\ allTxnsAgain = <<>> /\ wpc = "off"

MetricsIdle ==
    /\ metricsFile = <<>> /\ history = <<>> /\ loadedHistory = <<>>
    /\ mclock = 0 /\ collected = <<>> /\ mstate = "off"

\* every specification but `which` is idle / leaves its variables alone
AuxIdleExcept(which) ==
    /\ which # "rollup" => RollupIdle
    /\ which # "filter" => FilterIdle
    /\ which # "retry" => RetryIdle
    /\ which # "scripts" => ScriptsIdle
    /\ which # "driver" => DriverIdle
    /\ which # "split" => SplitIdle
    /\ which # "snapshots" => SnapshotsIdle
    /\ which # "wallet" => WalletIdle
    /\ which # "metrics" => MetricsIdle

AuxUnchangedExcept(which) ==
    /\ IF which # "rollup" THEN UNCHANGED rollupVars ELSE TRUE
    /\ IF which # "filter" THEN UNCHANGED filterVars ELSE TRUE
    /\ IF which # "retry" THEN UNCHANGED retryVars ELSE TRUE
    /\ IF which # "scripts" THEN UNCHANGED scriptVars ELSE TRUE
    /\ IF which # "driver" THEN UNCHANGED driverVars ELSE TRUE
    /\ IF which # "split" THEN UNCHANGED splitVars ELSE TRUE
    /\ IF which # "snapshots" THEN UNCHANGED snapshotVars ELSE TRUE
    /\ IF which # "wallet" THEN UNCHANGED walletVars ELSE TRUE
    /\ IF which # "metrics" THEN UNCHANGED metricsVars ELSE TRUE

AuxIdle == AuxIdleExcept("none")

PeriodsIdle ==
    /\ burns = <<>> /\ now = 0 /\ periods = <<>> /\ periodBurns = <<>>
    /\ ppc = "off"

RunIdle ==
    /\ variant = "none" /\ ledger = <<>> /\ file = <<>> /\ pc = "off"
    /\ existing = <<>> /\ lastTimestamp = 0 /\ nextPageParams = 0
    /\ page = 0 /\ newBurns = <<>> /\ reachedOldData = FALSE
    /\ consecutiveErrors = 0 /\ lastResp = "none"
    /\ totals = [totalBurned |-> 0, burnCount |-> 0]

MergeIdle ==
    /\ existingBurns = <<>> /\ incomingBurns = <<>> /\ merged = <<>>
    /\ mergedAgain = <<>> /\ mpc = "off"

InitMerge ==
    /\ existingBurns \in {h \in SeqsUpTo(ExistingRecs, MaxExisting) : IsHistory(h)}
    /\ incomingBurns \in SeqsUpTo(IncomingRecs, MaxIncoming)
    /\ merged = <<>>
    /\ mergedAgain = <<>>
    /\ mpc = "in"
    /\ PeriodsIdle
    /\ RunIdle
    /\ AuxIdle

\* allPTGCBurns = mergeBurns(existing, newPTGCBurns)
MergeOnce ==
    /\ mpc = "in"
    /\ merged' = mergeBurns(existingBurns, incomingBurns)
    /\ mpc' = "once"
    /\ UNCHANGED <<existingBurns, incomingBurns, mergedAgain, periodVars, runVars, auxVars>>

\* the same incoming list merged into the result of the first merge
MergeAgain ==
    /\ mpc = "once"
    /\ mergedAgain' = mergeBurns(merged, incomingBurns)
    /\ mpc' = "twice"
    /\ UNCHANGED <<existingBurns, incomingBurns, merged, periodVars, runVars, auxVars>>

NextMerge == MergeOnce \/ MergeAgain

SpecMerge == InitMerge /\ [][NextMerge]_vars

\* ---- properties of the merge ----

TimeOf(r) == IF r.t # 0 THEN r.t ELSE r.timestamp

TxOf(s) == {s[i].txHash : i \in DOMAIN s} \ {NoTx}

Occurrences(s, r) == Cardinality({i \in DOMAIN s : s[i] = r})

\* C1: merging the same incoming list a second time into the result of the
\* first merge yields the same sequence of records.
C1_Idempotent == mpc = "twice" => mergedAgain = merged

\* a second merge happened after a first one that added a record to a
\* non-empty history and dropped another
C1_Witness ==
    /\ mpc = "twice"
    /\ existingBurns # <<>>
    /\ Len(merged) > Len(existingBurns)
    /\ Len(merged) < Len(existingBurns) + Len(incomingBurns)

ExampleExisting == <<Burn(0, 1000, 1000, 5, 1, "")>>
ExampleIncoming == <<Burn(0, 0, 2000, 3, 2, ""), Burn(0, 0, 1000, 5, 1, "")>>

\* C2: the result of merging a duplicate-free history with any incoming list
\* is sorted by timestamp descending and holds no transaction identifier
\* twice; an incoming record whose identifier the history already holds is
\* dropped (the history's record is the only one with that identifier); the
\* example of the specification yields the records t=2000, t=1000.
C2_SortedNoDuplicates ==
    mpc # "in" =>
        /\ \A i \in DOMAIN merged : \A j \in DOMAIN merged :
              i < j => TimeOf(merged[i]) >= TimeOf(merged[j])
        /\ \A i \in DOMAIN merged : \A j \in DOMAIN merged :
              (i # j /\ merged[i].txHash # NoTx)
                  => merged[i].txHash # merged[j].txHash
        /\ \A k \in DOMAIN incomingBurns :
              incomingBurns[k].txHash \in TxOf(existingBurns) =>
                  \A i \in DOMAIN merged :
                      merged[i].txHash = incomingBurns[k].txHash
                          => merged[i] \in Range(existingBurns)
        /\ (existingBurns = ExampleExisting /\ incomingBurns = ExampleIncoming)
              => merged = <<ExampleIncoming[1], ExampleExisting[1]>>

\* the example of the specification has been merged
C2_Witness ==
    /\ mpc = "once"
    /\ existingBurns = ExampleExisting
    /\ incomingBurns = ExampleIncoming
    /\ Len(merged) = 2

LegacyKept ==
    \A i \in DOMAIN existingBurns :
        existingBurns[i].txHash = NoTx =>
            Occurrences(merged, existingBurns[i])
                = Occurrences(existingBurns, existingBurns[i])

\* C3 as claimed: every legacy record of the history is kept, and every
\* incoming record whose identifier no existing record carries appears in
\* the result.
C3_IncomingNeverDropped ==
    mpc # "in" =>
        /\ LegacyKept
        /\ \A k \in DOMAIN incomingBurns :
              incomingBurns[k].txHash \notin TxOf(existingBurns)
                  => incomingBurns[k] \in Range(merged)

\* C3 (amended): every legacy record of the history is kept, and every
\* incoming record whose identifier is carried neither by an existing record
\* nor by an earlier record of the incoming list appears in the result.
C3_FirstIncomingKept ==
    mpc # "in" =>
        /\ LegacyKept
        /\ \A k \in DOMAIN incomingBurns :
              (/\ incomingBurns[k].txHash \notin TxOf(existingBurns)
               /\ \A e \in 1..(k - 1) :
                     incomingBurns[e].txHash # incomingBurns[k].txHash)
                  => incomingBurns[k] \in Range(merged)

\* a history made of legacy records only was merged with a non-empty incoming
\* list, all of which was added
C3_Witness ==
    /\ mpc = "once"
    /\ existingBurns # <<>>
    /\ TxOf(existingBurns) = {}
    /\ incomingBurns # <<>>
    /\ Len(merged) = Len(existingBurns) + Len(incomingBurns)

----------------------------------------------------------------------------
(* Period aggregators.  Durations in units of 1000 ms.                     *)

\* mutant: the 7 day window written as 7 hours
d7_Hours == 7 * 60 * 60

h12 == 12 * 60 * 60
h24 == 24 * 60 * 60
d7  == 7 * 24 * 60 * 60
d30 == 30 * 24 * 60 * 60
d90 == 90 * 24 * 60 * 60

\* mutant: the boundary is exclusive
InWindow_Exclusive(age, window) == age < window

\* `age <= h12` of calculatePeriods
InWindow(age, window) == age <= window

\* `b.timestamp >= cutoff` of calculatePeriodBurns
AfterCutoff(timestamp, cutoff) == timestamp >= cutoff

Bucket(count, amount) == [count |-> count, amount |-> amount]

\* one `if (age <= w) { result.w.count++; result.w.amount += burn.a; }`
AddIf(bucket, cond, a) ==
    IF cond THEN Bucket(bucket.count + 1, bucket.amount + a) ELSE bucket

\* calculatePeriods(burns) at Date.now() = now_,
\* src/unnamed/part_001:351-377 (the variants of
\* src/scripts/fetch-burn-history.js:188-211 and 737-760 are the same loop
\* without the d90 bucket)
calculatePeriods(burns_, now_) ==
    LET zero == [h12 |-> Bucket(0, 0), h24 |-> Bucket(0, 0), d7 |-> Bucket(0, 0),
                 d30 |-> Bucket(0, 0), d90 |-> Bucket(0, 0)]
        result[i \in 0..Len(burns_)] ==
            IF i = 0 THEN zero
            ELSE LET age == now_ - burns_[i].t
                     a   == burns_[i].amount
                     r   == result[i - 1]
                 IN  [h12 |-> AddIf(r.h12, InWindow(age, h12), a),
                      h24 |-> AddIf(r.h24, InWindow(age, h24), a),
                      d7  |-> AddIf(r.d7,  InWindow(age, d7),  a),
                      d30 |-> AddIf(r.d30, InWindow(age, d30), a),
                      d90 |-> AddIf(r.d90, InWindow(age, d90), a)]
    IN  result[Len(burns_)]

\* periodBurns.reduce((sum, b) => sum + b.amount, 0)
SumAmounts(s) ==
    LET acc[i \in 0..Len(s)] == IF i = 0 THEN 0 ELSE acc[i - 1] + s[i].amount
    IN  acc[Len(s)]

\* calculatePeriodBurns(burns) at Date.now() = now_,
\* src/unnamed/part_001:1157-1176 and src/unnamed/part_000:137-156
calculatePeriodBurns(burns_, now_) ==
    LET For(ms) ==
            LET cutoff == now_ - ms
                recent == {i \in DOMAIN burns_ :
                              AfterCutoff(burns_[i].timestamp, cutoff)}
                periodBurns_ == FilterAt(burns_, recent)
            IN  Bucket(Len(periodBurns_), SumAmounts(periodBurns_))
    IN  [h12 |-> For(h12), h24 |-> For(h24), d7 |-> For(d7), d30 |-> For(d30)]

----------------------------------------------------------------------------
(* SpecPeriods: both aggregators applied to bounded burn lists.            *)

\* ages around every window boundary, the two ages of the specification's
MaxBurns == 2
\* example (1000 ms and 90000000 ms), and a record timestamped after `now`
Ages == {-1, 1, 43200, 43201, 86400, 86401, 90000, 604800, 604801,
         2592000, 2592001, 7776000, 7776001}

PeriodAmounts == {0, 2}

\* Date.now() of the call: the example's now = 100000 ms, and a later one
Nows == {100, 8000000}

InitPeriods ==
    /\ now \in Nows
    /\ burns \in SeqsUpTo({Burn(0, now - age, now - age, a, NoTx, "") :
                               age \in Ages, a \in PeriodAmounts}, MaxBurns)
    /\ periods = <<>>
    /\ periodBurns = <<>>
    /\ ppc = "in"
    /\ MergeIdle
    /\ RunIdle
    /\ AuxIdle

\* ptgcPeriods = calculatePeriods(ptgcBurns)
Aggregate ==
    /\ ppc = "in"
    /\ periods' = calculatePeriods(burns, now)
    /\ ppc' = "periods"
    /\ UNCHANGED <<burns, now, periodBurns, mergeVars, runVars, auxVars>>

\* ptgcPeriods = calculatePeriodBurns(allPTGCBurns)
AggregateBurns ==
    /\ ppc = "periods"
    /\ periodBurns' = calculatePeriodBurns(burns, now)
    /\ ppc' = "out"
    /\ UNCHANGED <<burns, now, periods, mergeVars, runVars, auxVars>>

NextPeriods == Aggregate \/ AggregateBurns

SpecPeriods == InitPeriods /\ [][NextPeriods]_vars

\* ---- properties of the aggregators ----

\* the window durations as the specification gives them, in units of 1000 ms
WindowOf == [h12 |-> 43200, h24 |-> 86400, d7 |-> 604800,
             d30 |-> 2592000, d90 |-> 7776000]

AgeOf(i) == now - TimeOf(burns[i])

CountWithin(d) == Cardinality({i \in DOMAIN burns : AgeOf(i) <= d})

AmountWithin(d) ==
    LET amt[i \in 0..Len(burns)] ==
            IF i = 0 THEN 0
            ELSE amt[i - 1] + (IF AgeOf(i) <= d THEN burns[i].amount ELSE 0)
    IN  amt[Len(burns)]

\* C9: every bucket counts, and sums the amounts of, exactly the records
\* whose age is at most the window duration (boundary included); of two
\* records aged 1000 ms and 90000000 ms only the first is in the 24h bucket.
C9_BucketsExact ==
    /\ ppc \in {"periods", "out"} =>
          /\ \A w \in {"h12", "h24", "d7", "d30", "d90"} :
                /\ periods[w].count = CountWithin(WindowOf[w])
                /\ periods[w].amount = AmountWithin(WindowOf[w])
          /\ (Len(burns) = 2 /\ AgeOf(1) = 1 /\ AgeOf(2) = 90000)
                => periods.h24.count = 1
    /\ ppc = "out" =>
          /\ \A w \in {"h12", "h24", "d7", "d30"} :
                /\ periodBurns[w].count = CountWithin(WindowOf[w])
                /\ periodBurns[w].amount = AmountWithin(WindowOf[w])
          /\ (Len(burns) = 2 /\ AgeOf(1) = 1 /\ AgeOf(2) = 90000)
                => periodBurns.h24.count = 1

\* the example of the specification has been aggregated by both functions,
\* at now = 100000 ms
C9_Witness ==
    /\ ppc = "out"
    /\ now = 100
    /\ Len(burns) = 2 /\ AgeOf(1) = 1 /\ AgeOf(2) = 90000
    /\ burns[1].amount > 0

\* C10: with non-negative amounts the buckets are monotone in the window:
\* count and amount of 12h <= 24h <= 7d <= 30d <= 90d.
C10_MonotoneInWindow ==
    /\ ppc \in {"periods", "out"} =>
          /\ periods.h12.count <= periods.h24.count
          /\ periods.h24.count <= periods.d7.count
          /\ periods.d7.count <= periods.d30.count
          /\ periods.d30.count <= periods.d90.count
          /\ periods.h12.amount <= periods.h24.amount
          /\ periods.h24.amount <= periods.d7.amount
          /\ periods.d7.amount <= periods.d30.amount
          /\ periods.d30.amount <= periods.d90.amount
    /\ ppc = "out" =>
          /\ periodBurns.h12.count <= periodBurns.h24.count
          /\ periodBurns.h24.count <= periodBurns.d7.count
          /\ periodBurns.d7.count <= periodBurns.d30.count
          /\ periodBurns.h12.amount <= periodBurns.h24.amount
          /\ periodBurns.h24.amount <= periodBurns.d7.amount
          /\ periodBurns.d7.amount <= periodBurns.d30.amount

\* two records of positive amount fall in different windows, so that the
\* chain is strict somewhere
C10_Witness ==
    /\ ppc = "out"
    /\ periods.h24.count < periods.d7.count
    /\ periods.d7.amount < periods.d90.amount
    /\ periodBurns.h12.amount < periodBurns.d30.amount

----------------------------------------------------------------------------
(* The burn-history scripts.  Four variants of the repository write the    *)
(* same burn-history.json:                                                 *)
(*   "basic"    src/unnamed/part_000            full refetch on every run  *)
(*   "moralis"  src/scripts/fetch-burn-history.js:1-538 and the split-files*)
(*              script src/unnamed/part_001:1-856 (same fetchAllBurns)     *)
(*   "v3"       src/scripts/fetch-burn-history.js:540-1061                 *)
(*   "opt"      src/unnamed/part_001:858-1434   the OPTIMIZED script       *)
(* One token's pipeline is followed; the scripts run the same code for     *)
(* each token, one after the other.                                        *)

Variants    == {"basic", "moralis", "v3", "opt"}
Incremental == {"moralis", "v3", "opt"}

\* bounds of the model
\* transfers the provider ever holds
MaxLedger == 5
\* records per page of the provider
PageSize == 2

\* limits of the code, scaled down so that the model reaches them
\* const maxPages = 500
maxPagesBasic == 2
\* const maxPages = 1000
maxPagesOpt == 2
\* consecutiveErrors < 5
MaxErrors == 5
\* allPTGCBurns.slice(0, 50000)
BurnsKept == 3

\* A provider transfer.  toBurn: the transfer's `to` is the burn address; the
\* "moralis" and "v3" queries select by receiving address on the provider's
\* side, the "basic" and "opt" scripts test tx.to themselves.  Every transfer
\* has its own transaction hash here; SpecMerge covers shared hashes.
Transfer(id, t, amount, toBurn) ==
    [id |-> id, t |-> t, amount |-> amount, toBurn |-> toBurn, tx |-> id]

\* the provider lists transfers newest first
Served(ledger_) == [i \in 1..Len(ledger_) |-> ledger_[Len(ledger_) + 1 - i]]

\* data.items / data.result of the page that starts after `cursor` records
PageItems(ledger_, cursor) ==
    LET all == Served(ledger_)
        last == IF cursor + PageSize < Len(all) THEN cursor + PageSize ELSE Len(all)
    IN  SubSeq(all, cursor + 1, last)

\* data.next_page_params / data.cursor is present when records remain
HasNextPage(ledger_, cursor) == cursor + PageSize < Len(ledger_)

\* mutant: the watermark test is `timestamp < lastTimestamp`
IsOldData_Strict(lastTimestamp_, timestamp) ==
    lastTimestamp_ # 0 /\ timestamp < lastTimestamp_

\* `lastTimestamp && timestamp <= lastTimestamp`
IsOldData(lastTimestamp_, timestamp) ==
    lastTimestamp_ # 0 /\ timestamp <= lastTimestamp_

\* the record pushed for a transfer:
\*   {t, a, f}                           "moralis", "v3"
\*   {timestamp, amount, txHash, from}   "basic", "opt"
Normalize(v, tx) ==
    IF v \in {"moralis", "v3"}
    THEN Burn(tx.id, tx.t, 0, tx.amount, NoTx, "")
    ELSE Burn(tx.id, 0, tx.t, tx.amount, tx.tx, "")

\* mutant: a record that is not newer than the watermark is passed over and
\* the loop goes on with the next record
RECURSIVE ProcessItems_SkipOld(_, _, _, _)
ProcessItems_SkipOld(v, items, lastTimestamp_, pushed) ==
    IF items = <<>> THEN [burns |-> pushed, reached |-> FALSE]
    ELSE LET tx == Head(items) IN
         IF (v \in {"basic", "opt"} /\ ~tx.toBurn)
            \/ (v # "basic" /\ IsOldData(lastTimestamp_, tx.t))
         THEN ProcessItems_SkipOld(v, Tail(items), lastTimestamp_, pushed)
         ELSE ProcessItems_SkipOld(v, Tail(items), lastTimestamp_,
                                   Append(pushed, Normalize(v, tx)))

\* the `for (const tx of data.items)` loop: returns the records pushed and
\* whether reachedOldData was set
RECURSIVE ProcessItems(_, _, _, _)
ProcessItems(v, items, lastTimestamp_, pushed) ==
    IF items = <<>> THEN [burns |-> pushed, reached |-> FALSE]
    ELSE LET tx == Head(items) IN
         IF v \in {"basic", "opt"} /\ ~tx.toBurn
         THEN ProcessItems(v, Tail(items), lastTimestamp_, pushed)
         ELSE IF v # "basic" /\ IsOldData(lastTimestamp_, tx.t)
         THEN [burns |-> pushed, reached |-> TRUE]
         ELSE ProcessItems(v, Tail(items), lastTimestamp_,
                           Append(pushed, Normalize(v, tx)))

\* the condition of the pagination loop's `while`
LoopCondition(v, page_, reached, errors) ==
    CASE v = "basic"   -> page_ < maxPagesBasic
      [] v = "moralis" -> ~reached
      [] v = "v3"      -> ~reached /\ errors < MaxErrors
      [] v = "opt"     -> page_ < maxPagesOpt /\ ~reached /\ errors < MaxErrors

\* the compact record written to the file: { t: b.timestamp || b.t,
\* a: b.amount || b.a } and, in "moralis" and "v3", f
Compact(b) == Burn(b.id, SortTime(b), 0, b.amount, NoTx, b.f)

CompactAll(s) == [i \in DOMAIN s |-> Compact(s[i])]

\* existingData.PTGC.burns.map(b => ({...b, timestamp: b.t, amount: b.a,
\* txHash: b.tx})): the file holds no tx field, so txHash is absent
LoadForMerge(b) == Burn(b.id, b.t, b.t, b.amount, NoTx, b.f)

FieldT(b) == b.t

\* s.sort((a, b) => b.t - a.t)
SortByT(s) == SortKeyed([i \in DOMAIN s |-> <<FieldT(s[i]), s[i]>>])

\* what a run writes as the burns array, from the records it fetched and the
\* history it loaded
WrittenBurns(v, existing_, newBurns_) ==
    CASE v = "basic" ->
            \* burns.sort((a, b) => b.timestamp - a.timestamp), then
            \* burns.map(b => ({ t: b.timestamp, a: b.amount }))
            CompactAll(SortByTime(newBurns_))
      [] v \in {"moralis", "v3"} ->
            \* [...newBurns, ...existingBurns].sort((a, b) => b.t - a.t)
            CompactAll(SortByT(newBurns_ \o existing_))
      [] v = "opt" ->
            \* mergeBurns(existing mapped, new), then slice(0, 50000) and map
            CompactAll(Prefix(
                mergeBurns([i \in DOMAIN existing_ |-> LoadForMerge(existing_[i])],
                           newBurns_),
                BurnsKept))

\* the list a run takes its totals over: burns ("basic"), ptgcBurns
\* ("moralis", "v3"), allPTGCBurns ("opt", before slice(0, 50000))
AllBurns(v, existing_, newBurns_) ==
    IF v = "opt"
    THEN mergeBurns([i \in DOMAIN existing_ |-> LoadForMerge(existing_[i])],
                    newBurns_)
    ELSE WrittenBurns(v, existing_, newBurns_)

\* burns.reduce((s, b) => s + b.a, 0), or b.amount in "basic" and "opt"
TotalOf(s) ==
    LET acc[i \in 0..Len(s)] == IF i = 0 THEN 0 ELSE acc[i - 1] + s[i].amount
    IN  acc[Len(s)]

\* totalBurned and burnCount of outputData
OutputTotals(v, existing_, newBurns_) ==
    LET all == AllBurns(v, existing_, newBurns_)
    IN  [totalBurned |-> TotalOf(all), burnCount |-> Len(all)]

InitRun ==
    /\ variant \in Variants
    /\ ledger = <<>>
    /\ file = <<>>
    /\ pc = "idle"
    /\ existing = <<>>
    /\ lastTimestamp = 0
    /\ nextPageParams = 0
    /\ page = 0
    /\ newBurns = <<>>
    /\ reachedOldData = FALSE
    /\ consecutiveErrors = 0
    /\ lastResp = "none"
    /\ totals = [totalBurned |-> 0, burnCount |-> 0]
    /\ MergeIdle
    /\ PeriodsIdle
    /\ AuxIdle

\* between two runs the chain produces a transfer; it is not older than the
\* transfers the provider already lists
ProviderAdd ==
    /\ pc = "idle"
    /\ Len(ledger) < MaxLedger
    /\ \E t \in (IF ledger = <<>> THEN {1}
                 ELSE {ledger[Len(ledger)].t, ledger[Len(ledger)].t + 1}),
          toBurn \in (IF variant \in {"basic", "opt"} THEN BOOLEAN ELSE {TRUE}) :
          ledger' = Append(ledger, Transfer(Len(ledger) + 1, t, 1, toBurn))
    /\ UNCHANGED <<variant, file, pc, existing, lastTimestamp, nextPageParams,
                   page, newBurns, reachedOldData, consecutiveErrors, lastResp,
                   totals, mergeVars, periodVars, auxVars>>

\* main up to the first page request: load the file, take the watermark
StartRun ==
    /\ pc = "idle"
    /\ existing' = IF variant = "basic" THEN <<>> ELSE file
    /\ lastTimestamp' = IF variant # "basic" /\ file # <<>> THEN file[1].t ELSE 0
    /\ nextPageParams' = 0
    /\ page' = 0
    /\ newBurns' = <<>>
    /\ reachedOldData' = FALSE
    /\ consecutiveErrors' = 0
    /\ lastResp' = "none"
    /\ pc' = "fetch"
    /\ UNCHANGED <<variant, ledger, file, totals, mergeVars, periodVars, auxVars>>

\* one iteration of the pagination loop whose request is answered
PageOk ==
    /\ pc = "fetch"
    /\ lastResp' = "ok"
    /\ consecutiveErrors' = 0
    /\ LET items == PageItems(ledger, nextPageParams)
           done  == ProcessItems(variant, items, lastTimestamp, <<>>)
           more  == HasNextPage(ledger, nextPageParams)
       IN  IF items = <<>>
           THEN \* break
                /\ pc' = "merge"
                /\ UNCHANGED <<newBurns, reachedOldData, nextPageParams, page>>
           ELSE /\ newBurns' = newBurns \o done.burns
                /\ reachedOldData' = done.reached
                /\ IF more /\ ~done.reached
                   THEN /\ nextPageParams' = nextPageParams + PageSize
                        /\ page' = page + 1
                        /\ pc' = IF LoopCondition(variant, page + 1, FALSE, 0)
                                 THEN "fetch" ELSE "merge"
                   ELSE \* break
                        /\ pc' = "merge"
                        /\ UNCHANGED <<nextPageParams, page>>
    /\ UNCHANGED <<variant, ledger, file, existing, lastTimestamp, totals,
                   mergeVars, periodVars, auxVars>>

\* one iteration of the pagination loop whose request fails: the request
\* helper returned null, or (in "basic") fetch threw
PageFail ==
    /\ pc = "fetch"
    /\ lastResp' = "error"
    /\ IF variant = "basic"
       THEN \* catch (error) { break; }
            /\ pc' = "merge"
            /\ UNCHANGED consecutiveErrors
       ELSE \* (consecutiveErrors++;) await delay(...); continue;
            /\ pc' = "backoff"
            /\ consecutiveErrors' =
                  IF variant = "moralis" THEN consecutiveErrors
                  ELSE consecutiveErrors + 1
    /\ UNCHANGED <<variant, ledger, file, existing, lastTimestamp,
                   nextPageParams, page, newBurns, reachedOldData, totals,
                   mergeVars, periodVars, auxVars>>

\* the delay after a failed request is over: `continue` re-tests the loop
BackoffDone ==
    /\ pc = "backoff"
    /\ pc' = IF LoopCondition(variant, page, reachedOldData, consecutiveErrors)
             THEN "fetch" ELSE "merge"
    /\ UNCHANGED <<variant, ledger, file, existing, lastTimestamp,
                   nextPageParams, page, newBurns, reachedOldData,
                   consecutiveErrors, lastResp, totals,
                   mergeVars, periodVars, auxVars>>

\* the rest of main: merge, truncate, write the file
FinishRun ==
    /\ pc = "merge"
    /\ file' = WrittenBurns(variant, existing, newBurns)
    /\ totals' = OutputTotals(variant, existing, newBurns)
    /\ pc' = "idle"
    /\ UNCHANGED <<variant, ledger, existing, lastTimestamp, nextPageParams,
                   page, newBurns, reachedOldData, consecutiveErrors, lastResp,
                   mergeVars, periodVars, auxVars>>

RunStep == StartRun \/ PageOk \/ PageFail \/ BackoffDone \/ FinishRun

Next == ProviderAdd \/ StartRun \/ PageOk \/ PageFail \/ BackoffDone \/ FinishRun

Spec == InitRun /\ [][Next]_vars

\* a script that is running takes its next step; the scheduler starts a run
\* again and again
FairSpec == Spec /\ WF_vars(RunStep)

\* ---- properties of the paginated fetch and of the runs ----

IdsOf(s) == {s[i].id : i \in DOMAIN s}

\* the page the provider answers the pending request with
RespItems == PageItems(ledger, nextPageParams)

\* the loop is left by the step
LoopExits == pc \in {"fetch", "backoff"} /\ pc' = "merge"

\* the pending request is answered / fails in the step
Answered == pc = "fetch" /\ lastResp' = "ok"
Failed   == pc = "fetch" /\ lastResp' = "error"

RetriesSamePage ==
    /\ Failed => /\ pc' = "backoff"
                 /\ nextPageParams' = nextPageParams
                 /\ newBurns' = newBurns
    /\ pc = "backoff" => /\ pc' = "fetch"
                         /\ nextPageParams' = nextPageParams
                         /\ newBurns' = newBurns

\* C4: a failed page request is followed by a request for the same page:
\* the fetch neither stops nor moves on, and keeps what it has collected.
C4_RetriesSamePage == [][RetriesSamePage]_vars

\* C5: a run that has started reaches its final write, whatever the provider
\* answers.
C5_RunTerminates == (pc = "fetch") ~> (pc = "idle")

\* (a) the page has no records, (b) the response carries no next cursor
StopEmpty  == RespItems = <<>>
StopNoNext == ~HasNextPage(ledger, nextPageParams)

\* (c) as claimed: some record of the page is not newer than the watermark
OldIndexes == {i \in DOMAIN RespItems :
                 lastTimestamp # 0 /\ RespItems[i].t <= lastTimestamp}

\* (c) as the "basic" and "opt" scripts see it: records that are not
\* transfers to the burn address are skipped before the watermark test
Relevant(tx) == variant \in {"basic", "opt"} => tx.toBurn

RelevantOldIndexes == {i \in OldIndexes : Relevant(RespItems[i])}

FirstOf(S) == IF S = {} THEN Len(RespItems) + 1
              ELSE CHOOSE i \in S : \A j \in S : i <= j

StopsOnThree ==
    /\ pc \in {"fetch", "backoff"} =>
          (LoopExits <=>
              (Answered /\ (StopEmpty \/ StopNoNext \/ OldIndexes # {})))
    /\ Answered =>
          (\A i \in DOMAIN RespItems :
              i >= FirstOf(OldIndexes) => RespItems[i].id \notin IdsOf(newBurns'))

StopsOnFive ==
    /\ pc \in {"fetch", "backoff"} =>
          (LoopExits <=>
              (\/ Answered /\ (\/ StopEmpty
                               \/ StopNoNext
                               \/ variant # "basic" /\ RelevantOldIndexes # {}
                               \/ variant = "basic" /\ page + 1 >= maxPagesBasic
                               \/ variant = "opt" /\ page + 1 >= maxPagesOpt)
               \/ Failed /\ variant = "basic"
               \/ pc = "backoff" /\ variant \in {"v3", "opt"}
                                 /\ consecutiveErrors >= 5))
    /\ Answered =>
          (IdsOf(newBurns') = IdsOf(newBurns) \cup
              {RespItems[i].id : i \in
                  {j \in DOMAIN RespItems :
                      /\ Relevant(RespItems[j])
                      /\ variant # "basic" => j < FirstOf(RelevantOldIndexes)}})

NoNewTransfers ==
    \A i \in DOMAIN ledger : ledger[i].toBurn => ledger[i].t <= lastTimestamp

NoDuplicateNoChange ==
    variant \in Incremental =>
        /\ \A i \in DOMAIN file' : \A j \in DOMAIN file' :
              i # j => file'[i].id # file'[j].id
        /\ (pc = "merge" /\ pc' = "idle" /\ lastTimestamp # 0 /\ NoNewTransfers)
              => file' = file

\* C7: over the runs of an incremental script no provider transfer is stored
\* twice, and a run that finds no transfer newer than the head of the
\* persisted history writes the burns it loaded, unchanged.
C7_NoDuplicateNoChange == [][NoDuplicateNoChange]_vars

\* an incremental run has added records to a history of two or more records
C7_Witness ==
    /\ variant \in Incremental
    /\ pc = "idle"
    /\ lastTimestamp # 0
    /\ newBurns # <<>>
    /\ Len(file) = Len(existing) + Len(newBurns)
    /\ Len(existing) >= 2

HistoryOnlyGrows ==
    (pc = "merge" /\ pc' = "idle") =>
        \A i \in DOMAIN file :
            \/ file[i].id \in IdsOf(file')
            \/ /\ variant = "opt" /\ Len(file') = BurnsKept
               /\ \A j \in DOMAIN file' : file'[j].t >= file[i].t

\* C8: every record stored before a run is still stored after it, unless the
\* history is at its maximum retained count and the record is not newer than
\* any record kept.
C8_HistoryOnlyGrows == [][HistoryOnlyGrows]_vars

\* C26: between the runs, the file's burnCount is the number of entries of
\* its burns array and its totalBurned is the sum of their amounts.
C26_TotalsMatchBurns ==
    pc = "idle" =>
        /\ totals.burnCount = Len(file)
        /\ totals.totalBurned = SumAmounts(file)

\* the history was cut by slice(0, 50000) or stands at that length
AtRetainedCount == variant = "opt" /\ Len(file) >= BurnsKept

\* no two transfers of the provider carry the same timestamp
DistinctStamps ==
    \A i, j \in DOMAIN ledger : ledger[i].t = ledger[j].t => i = j

\* C23: between the runs of an incremental fetcher, every burn transfer of
\* the provider that is older than the newest stored record is stored (the
\* history has no gap below its watermark).  Providers with two transfers
\* of one timestamp and histories at the retained count are left out, so
\* that a violation is a gap left by the pagination alone.
C23_NoGapBelowWatermark ==
    (/\ pc = "idle" /\ variant \in Incremental /\ file # <<>>
     /\ DistinctStamps /\ ~AtRetainedCount)
        => \A i \in DOMAIN ledger :
              (ledger[i].toBurn /\ ledger[i].t < file[1].t)
                  => ledger[i].id \in IdsOf(file)

----------------------------------------------------------------------------
(* The metrics collector, src/unnamed/part_003.  One token's history is    *)
(* followed; main treats both tokens alike.  Time is counted in units of   *)
(* 15 minutes.  Numeric fields are exact fractions <<numerator,            *)
(* denominator>> in lowest terms, so that an average is the quotient the   *)
(* code computes, without its floating point error.  A snapshot's mcap and *)
(* pairCount are not read by the rollup and are left out.                  *)

\* substring(0, 13) of an ISO timestamp is its hour, substring(0, 10) its day
HourUnits == 4
DayUnits == 96

\* retention settings, scaled down so that the model reaches them: the caps
\* 96 / 168 / 90, and the cutoffs of 48 hours (96 half hours) and of 7 days
\* (168 hours).  As in the code, each cutoff is its cap times the spacing of
\* the list's entries: 2 half hours, 2 hours.
MAX_30MIN_SNAPSHOTS == 2
MAX_HOURLY_SNAPSHOTS == 2
MAX_DAILY_SNAPSHOTS == 1
Cutoff30Min == 4
CutoffHourly == 8

\* holders: null when both holder sources failed
Null == -1

RECURSIVE GCD(_, _)
GCD(a, b) == IF b = 0 THEN a ELSE GCD(b, a % b)

Frac(n, d) == LET g == GCD(n, d) IN <<n \div g, d \div g>>

\* mutant: Math.floor in place of Math.round
Round_Floor(q) == q[1] \div q[2]

\* Math.round of a non-negative quotient
Round(q) == (2 * q[1] + q[2]) \div (2 * q[2])

\* (x.holders || 0)
HoldersOrZero(x) == IF x.holders = Null THEN 0 ELSE x.holders

NumericFields == {"price", "volume24h", "liquidity", "liqMcapRatio", "tokensInLP"}

\* snapshots.reduce((s, x) => s + (x.<field> || 0), 0), as a fraction that
\* is not reduced
SumField(snapshots_, field) ==
    LET acc[i \in 0..Len(snapshots_)] ==
            IF i = 0 THEN <<0, 1>>
            ELSE LET s == acc[i - 1]
                     x == snapshots_[i][field]
                 IN  <<s[1] * x[2] + x[1] * s[2], s[2] * x[2]>>
    IN  acc[Len(snapshots_)]

SumHolders(snapshots_) ==
    LET acc[i \in 0..Len(snapshots_)] ==
            IF i = 0 THEN 0 ELSE acc[i - 1] + HoldersOrZero(snapshots_[i])
    IN  acc[Len(snapshots_)]

\* const avg = { timestamp, price: sum / snapshots.length, ...,
\*               holders: Math.round(sum / snapshots.length), ... }
Avg(timestamp, snapshots_) ==
    LET Mean(field) == LET sum == SumField(snapshots_, field)
                       IN  Frac(sum[1], sum[2] * Len(snapshots_))
    IN  [timestamp |-> timestamp,
         price |-> Mean("price"), volume24h |-> Mean("volume24h"),
         liquidity |-> Mean("liquidity"), liqMcapRatio |-> Mean("liqMcapRatio"),
         holders |-> Round(Frac(SumHolders(snapshots_), Len(snapshots_))),
         tokensInLP |-> Mean("tokensInLP")]

\* the keys of hourlyGroups / dailyGroups in insertion order, which is the
\* order Object.entries lists them in
GroupKeys(toRollup, unit) ==
    LET acc[i \in 0..Len(toRollup)] ==
            IF i = 0 THEN <<>>
            ELSE LET key == toRollup[i].timestamp \div unit
                 IN  IF key \in Range(acc[i - 1]) THEN acc[i - 1]
                     ELSE Append(acc[i - 1], key)
    IN  acc[Len(toRollup)]

\* hourlyGroups[hourKey]
GroupOf(toRollup, unit, key) ==
    FilterAt(toRollup, {i \in DOMAIN toRollup : toRollup[i].timestamp \div unit = key})

\* one rollup block: split `list` at the cutoff, group the old entries by
\* key, unshift one average per group onto `target`
RollupStage(list, target, cutoff, unit, stampOffset) ==
    LET toKeep   == FilterAt(list, {i \in DOMAIN list : list[i].timestamp > cutoff})
        toRollup == FilterAt(list, {i \in DOMAIN list : ~(list[i].timestamp > cutoff)})
        keys     == GroupKeys(toRollup, unit)
        grouped  == [k \in 1..Len(keys) |->
                        LET members == GroupOf(toRollup, unit, keys[k])
                        IN  [key |-> keys[k], snapshots |-> members,
                             avg |-> Avg(keys[k] * unit + stampOffset, members)]]
        unshifted[k \in 0..Len(keys)] ==
            IF k = 0 THEN target ELSE <<grouped[k].avg>> \o unshifted[k - 1]
    IN  [kept |-> toKeep, target |-> unshifted[Len(keys)], groups |-> grouped]

\* rollupSnapshots with its local variables: the token data it returns and
\* the hourlyGroups / dailyGroups it built (empty when a block is not
\* entered)
RollupCall(tokenData_, now_) ==
    LET \* "Roll up 30-min snapshots older than 48h to hourly"
        overHourly == Len(tokenData_.snapshots) > MAX_30MIN_SNAPSHOTS
        stage1 == RollupStage(tokenData_.snapshots, tokenData_.hourly,
                              now_ - Cutoff30Min, HourUnits, 0)
        snapshots1 == IF overHourly THEN stage1.kept ELSE tokenData_.snapshots
        hourly1 == IF overHourly THEN stage1.target ELSE tokenData_.hourly
        \* "Roll up hourly data older than 7 days to daily"
        overDaily == Len(hourly1) > MAX_HOURLY_SNAPSHOTS
        stage2 == RollupStage(hourly1, tokenData_.daily,
                              now_ - CutoffHourly, DayUnits, DayUnits \div 2)
        hourly2 == IF overDaily THEN stage2.kept ELSE hourly1
        daily2 == IF overDaily THEN stage2.target ELSE tokenData_.daily
        \* "Trim daily to max"
        daily3 == IF Len(daily2) > MAX_DAILY_SNAPSHOTS
                  THEN Prefix(daily2, MAX_DAILY_SNAPSHOTS) ELSE daily2
    IN  [tokenData |-> [snapshots |-> snapshots1, hourly |-> hourly2,
                        daily |-> daily3],
         groups |-> [hourly |-> IF overHourly THEN stage1.groups ELSE <<>>,
                     daily |-> IF overDaily THEN stage2.groups ELSE <<>>]]

rollupSnapshots(tokenData_, now_) == RollupCall(tokenData_, now_).tokenData

----------------------------------------------------------------------------
(* SpecRollup: the collector run after run.                                *)

\* the first run, shortly before a day boundary, and the time followed
RollupStart == 86
MaxElapsed == 12

\* time between two runs: the schedule is 30 minutes; a run can come early
NominalGap == 2
RunGaps == {1, NominalGap}

\* what collectTokenMetrics returns
MetricSamples ==
    {[price |-> Frac(1, 1), volume24h |-> Frac(4, 1), liquidity |-> Frac(2, 1),
      liqMcapRatio |-> Frac(0, 1), holders |-> Null, tokensInLP |-> Frac(3, 1)],
     [price |-> Frac(2, 1), volume24h |-> Frac(1, 1), liquidity |-> Frac(5, 1),
      liqMcapRatio |-> Frac(3, 1), holders |-> 7, tokensInLP |-> Frac(0, 1)]}

\* const snapshot = { timestamp, ...metrics }
Snapshot(timestamp, metrics) ==
    [timestamp |-> timestamp, price |-> metrics.price,
     volume24h |-> metrics.volume24h, liquidity |-> metrics.liquidity,
     liqMcapRatio |-> metrics.liqMcapRatio, holders |-> metrics.holders,
     tokensInLP |-> metrics.tokensInLP]

CoreIdle == MergeIdle /\ PeriodsIdle /\ RunIdle

InitRollup ==
    /\ tokenData = [snapshots |-> <<>>, hourly |-> <<>>, daily |-> <<>>]
    /\ clock = RollupStart
    /\ rpc = "run"
    /\ groups = [hourly |-> <<>>, daily |-> <<>>]
    /\ CoreIdle
    /\ AuxIdleExcept("rollup")

\* a run whose metrics were collected: unshift the snapshot, roll up
CollectRun ==
    /\ rpc = "run"
    /\ \E gap \in RunGaps, metrics \in MetricSamples :
          /\ clock + gap <= RollupStart + MaxElapsed
          /\ clock' = clock + gap
          /\ LET unshifted == [tokenData EXCEPT
                                   !.snapshots = <<Snapshot(clock', metrics)>> \o @]
                 call == RollupCall(unshifted, clock')
             IN  /\ tokenData' = call.tokenData
                 /\ groups' = call.groups
    /\ UNCHANGED <<rpc, mergeVars, periodVars, runVars>>
    /\ AuxUnchangedExcept("rollup")

\* a run whose collectTokenMetrics returned null: the history is written as
\* it was loaded
CollectNothing ==
    /\ rpc = "run"
    /\ clock + NominalGap <= RollupStart + MaxElapsed
    /\ clock' = clock + NominalGap
    /\ UNCHANGED <<tokenData, groups, rpc, mergeVars, periodVars, runVars>>
    /\ AuxUnchangedExcept("rollup")

NextRollup == CollectRun \/ CollectNothing

SpecRollup == InitRollup /\ [][NextRollup]_vars

\* ---- properties of the rollup ----

\* C11: after a run each list is within its cap.
C11_WithinCaps ==
    rpc = "run" =>
        /\ Len(tokenData.snapshots) <= MAX_30MIN_SNAPSHOTS
        /\ Len(tokenData.hourly) <= MAX_HOURLY_SNAPSHOTS
        /\ Len(tokenData.daily) <= MAX_DAILY_SNAPSHOTS

\* the step is a run that appended a snapshot and called rollupSnapshots
Collected == rpc = "run" /\ tokenData' # tokenData

\* the snapshots the call took out of the fine list
Removed ==
    {x \in Range(tokenData.snapshots) : x \notin Range(tokenData'.snapshots)}

RollsUpAtCapPlusOne ==
    (Collected /\ Len(tokenData.snapshots) = MAX_30MIN_SNAPSHOTS) =>
        /\ Len(tokenData'.snapshots) <= MAX_30MIN_SNAPSHOTS
        /\ Len(groups'.hourly) =
              Cardinality({x.timestamp \div HourUnits : x \in Removed})
        /\ \A x \in Removed :
              Cardinality({k \in DOMAIN groups'.hourly :
                              x \in Range(groups'.hourly[k].snapshots)}) = 1
        /\ \A k \in DOMAIN groups'.hourly :
              /\ Range(groups'.hourly[k].snapshots) \subseteq Removed
              /\ groups'.daily = <<>> =>
                    groups'.hourly[k].avg \in Range(tokenData'.hourly)
        /\ groups'.daily = <<>> =>
              Len(tokenData'.hourly) = Len(tokenData.hourly) + Len(groups'.hourly)

\* C12: a call of rollupSnapshots on a fine list of cap + 1 entries leaves
\* at most cap entries and adds to the hourly list one averaged entry for
\* each distinct hour among the snapshots it removed, each removed snapshot
\* being in exactly one of the hour groups.
C12_RollsUpAtCapPlusOne == [][RollsUpAtCapPlusOne]_vars

\* sum of the fractions q[1], ..., q[n] over the product of their
\* denominators: <<numerator, product>>
OverProduct(q) ==
    LET prod[i \in 0..Len(q)] == IF i = 0 THEN 1 ELSE prod[i - 1] * q[i][2]
        num[i \in 0..Len(q)] ==
            IF i = 0 THEN 0
            ELSE num[i - 1] * q[i][2] + q[i][1] * prod[i - 1]
    IN  <<num[Len(q)], prod[Len(q)]>>

\* avg is the mean of field f over the group g: avg * size = sum
IsMean(g, f) ==
    LET sum == OverProduct([i \in DOMAIN g.snapshots |-> g.snapshots[i][f]])
    IN  g.avg[f][1] * sum[2] * Len(g.snapshots) = g.avg[f][2] * sum[1]

\* avg.holders is the integer nearest to the mean of the holder counts, an
\* absent count taken as 0, a tie going up
IsRoundedMean(g) ==
    LET n == Len(g.snapshots)
        sum == SumHolders(g.snapshots)
        h == g.avg.holders
    IN  2 * n * h <= 2 * sum + n /\ 2 * sum + n < 2 * n * (h + 1)

AllGroups == Range(groups.hourly) \cup Range(groups.daily)

\* C13: in every group rolled up, each numeric field of the averaged record
\* is the sum of the field over the group divided by the group's size; the
\* holders field is that quotient rounded to the nearest integer.
C13_AverageExact ==
    rpc = "run" =>
        \A g \in AllGroups :
            /\ g.snapshots # <<>>
            /\ \A f \in NumericFields : IsMean(g, f)
            /\ IsRoundedMean(g)

\* one call rolled two snapshots of an hour, one of them without a holder
\* count, and entries of the hourly list whose values are not integers
C13_Witness ==
    /\ rpc = "run"
    /\ \E g \in Range(groups.hourly) :
          /\ Len(g.snapshots) = 2
          /\ g.snapshots[1].holders # g.snapshots[2].holders
          /\ g.avg.holders = 4
    /\ \E g \in Range(groups.daily) :
          /\ Len(g.snapshots) >= 2
          /\ \E i \in DOMAIN g.snapshots : g.snapshots[i].price[2] > 1

\* the list is ordered by timestamp, newest first
DescendingByStamp(list) ==
    \A i, j \in DOMAIN list : i < j => list[i].timestamp >= list[j].timestamp

\* C24: after every run the hourly list and the daily list are ordered by
\* timestamp descending.
C24_ListsDescending ==
    rpc = "run" =>
        /\ DescendingByStamp(tokenData.hourly)
        /\ DescendingByStamp(tokenData.daily)

\* no two entries of the list carry the same timestamp
DistinctByStamp(list) ==
    \A i, j \in DOMAIN list : list[i].timestamp = list[j].timestamp => i = j

\* C25: after every run the hourly list holds no two entries of one hour
\* and the daily list no two entries of one day.
C25_OneEntryPerKey ==
    rpc = "run" =>
        /\ DistinctByStamp(tokenData.hourly)
        /\ DistinctByStamp(tokenData.daily)

(***************************************************************************)
(* Buy-back filter: fetchAllBurns' record construction and                 *)
(* filterBuybackBurns.  An address is a record [hex, upper]: hex names the *)
(* 20 bytes, upper tells whether the text has upper-case digits (a         *)
(* checksummed address).  The empty string is hex 0; a missing field is    *)
(* Undefined.                                                              *)
(***************************************************************************)
\* most transfers in one response
MaxTxs == 2
\* most records in the burns array on disk
MaxDisk == 1

PTGC_LP_PAIR == [hex |-> 1, upper |-> FALSE]
UFO_LP_PAIR  == [hex |-> 2, upper |-> FALSE]
EmptyString  == [hex |-> 0, upper |-> FALSE]
Undefined    == [hex |-> -1, upper |-> FALSE]

\* String.prototype.toLowerCase
toLowerCase(str) == [str EXCEPT !.upper = FALSE]

\* x || '' for a string or missing x
OrEmpty(x) == IF x = Undefined \/ x = EmptyString THEN EmptyString ELSE x

\* a transfer of the response: kind tells which field carries the sender
\* ("hash": from.hash, "address": from.address, "string": from is a string,
\* "from_address": from_address, "none": no sender at all)
TxFrom(tx, kind) == IF tx.kind = kind THEN tx.addr ELSE Undefined

getFromAddress_KeepCase(tx) ==
    IF TxFrom(tx, "hash") # Undefined /\ TxFrom(tx, "hash") # EmptyString
        THEN TxFrom(tx, "hash")
    ELSE IF TxFrom(tx, "address") # Undefined /\ TxFrom(tx, "address") # EmptyString
        THEN TxFrom(tx, "address")
    ELSE IF tx.kind = "string" THEN tx.addr
    ELSE EmptyString

getFromAddress(tx) ==
    IF TxFrom(tx, "hash") # Undefined /\ TxFrom(tx, "hash") # EmptyString
        THEN toLowerCase(TxFrom(tx, "hash"))
    ELSE IF TxFrom(tx, "address") # Undefined /\ TxFrom(tx, "address") # EmptyString
        THEN toLowerCase(TxFrom(tx, "address"))
    ELSE IF tx.kind = "string" THEN toLowerCase(tx.addr)
    ELSE EmptyString

\* (tx.from_address || '').toLowerCase()
FromAddressField(tx) == toLowerCase(OrEmpty(TxFrom(tx, "from_address")))

\* newBurns.push({ t, a, f: fromAddr })
NewBurnsV3(txs_) ==
    [i \in DOMAIN txs_ |->
        [t |-> txs_[i].t, a |-> txs_[i].a, f |-> getFromAddress(txs_[i]),
         id |-> txs_[i].id]]

NewBurnsBasic(txs_) ==
    [i \in DOMAIN txs_ |->
        [t |-> txs_[i].t, a |-> txs_[i].a, f |-> FromAddressField(txs_[i]),
         id |-> txs_[i].id]]

\* existingBurns.map(b => ({ t: b.t, a: b.a, f: b.f || '' }))
normalizedExisting(existingBurns_) ==
    [i \in DOMAIN existingBurns_ |->
        [existingBurns_[i] EXCEPT !.f = OrEmpty(existingBurns_[i].f)]]

filterBuybackBurns_Reversed(burns_, lpPairAddress_) ==
    LET lpAddr == toLowerCase(lpPairAddress_)
        kept   == FilterAt(burns_, {i \in DOMAIN burns_ : burns_[i].f = lpAddr})
    IN  [i \in DOMAIN kept |-> kept[Len(kept) + 1 - i]]

filterBuybackBurns(burns_, lpPairAddress_) ==
    LET lpAddr == toLowerCase(lpPairAddress_)
    IN  FilterAt(burns_, {i \in DOMAIN burns_ : burns_[i].f = lpAddr})

\* ---- SpecFilter -----------------------------------------------------------
TxKinds == {"hash", "address", "string", "from_address"}

\* the shapes each provider's transfers have: Blockscout's items carry `from`,
\* Moralis' result rows carry `from_address`
BlockscoutKinds == {"hash", "address", "string", "none"}

MoralisKinds == {"from_address", "none"}

ResponseKinds(txs_) == {txs_[i].kind : i \in DOMAIN txs_}

TxAddresses == {[hex |-> h, upper |-> u] : h \in {1, 2}, u \in BOOLEAN}

\* the f of a record the scripts wrote: a lower-case address, '' or, in a
\* file of the first format, no f
DiskFs == {PTGC_LP_PAIR, UFO_LP_PAIR, EmptyString, Undefined}

\* responses: the transfers of one response carry the sender in one field,
\* or carry none; newest first, all newer than the file's records
Responses ==
    UNION {
        {[i \in 1..n |-> [t |-> MaxDisk + 1 + n - i, a |-> 1, kind |-> k,
                          addr |-> as[i], id |-> i]] :
            k \in TxKinds, as \in [1..n -> TxAddresses]}
        \cup
        {[i \in 1..n |-> [t |-> MaxDisk + 1 + n - i, a |-> 1, kind |-> "none",
                          addr |-> Undefined, id |-> i]]}
        : n \in 0..MaxTxs}

DiskArrays ==
    UNION {
        {[i \in 1..n |-> [t |-> n + 1 - i, a |-> 1, f |-> fs[i],
                          id |-> MaxTxs + i]] :
            fs \in [1..n -> DiskFs]}
        : n \in 0..MaxDisk}

InitFilter ==
    /\ txs \in Responses
    /\ diskBurns \in DiskArrays
    /\ lpPairAddress \in {PTGC_LP_PAIR, UFO_LP_PAIR}
    /\ allBurns = <<>>
    /\ buybacks = <<>>
    /\ fpc = "in"
    /\ CoreIdle
    /\ AuxIdleExcept("filter")

\* fetchAllBurns of fetch-burn-history.js (second definition)
FetchAllBurnsV3 ==
    /\ fpc = "in"
    /\ ResponseKinds(txs) \subseteq BlockscoutKinds
    /\ allBurns' = SortByT(NewBurnsV3(txs) \o normalizedExisting(diskBurns))
    /\ fpc' = "fetched"
    /\ UNCHANGED <<txs, diskBurns, lpPairAddress, buybacks>>
    /\ UNCHANGED <<mergeVars, periodVars, runVars>>
    /\ AuxUnchangedExcept("filter")

\* fetchAllBurns of the Moralis scripts
FetchAllBurnsBasic ==
    /\ fpc = "in"
    /\ ResponseKinds(txs) \subseteq MoralisKinds
    /\ allBurns' = SortByT(NewBurnsBasic(txs) \o diskBurns)
    /\ fpc' = "fetched"
    /\ UNCHANGED <<txs, diskBurns, lpPairAddress, buybacks>>
    /\ UNCHANGED <<mergeVars, periodVars, runVars>>
    /\ AuxUnchangedExcept("filter")

\* const buybackBurns = filterBuybackBurns(burns, LP_PAIR)
FilterBuybacks ==
    /\ fpc = "fetched"
    /\ buybacks' = filterBuybackBurns(allBurns, lpPairAddress)
    /\ fpc' = "filtered"
    /\ UNCHANGED <<txs, diskBurns, lpPairAddress, allBurns>>
    /\ UNCHANGED <<mergeVars, periodVars, runVars>>
    /\ AuxUnchangedExcept("filter")

NextFilter == FetchAllBurnsV3 \/ FetchAllBurnsBasic \/ FilterBuybacks

SpecFilter == InitFilter /\ [][NextFilter]_vars

\* C14: the list filterBuybackBurns returns is a sub-list of its input: the
\* same records in the same relative order, none twice and none added, so
\* that every input record is either returned once or not returned.
C14_SubList ==
    fpc = "filtered" =>
        /\ IdsOf(buybacks) \subseteq IdsOf(allBurns)
        /\ Cardinality(IdsOf(buybacks)) = Len(buybacks)
        /\ buybacks =
              FilterAt(allBurns,
                       {i \in DOMAIN allBurns : allBurns[i].id \in IdsOf(buybacks)})

\* two records are returned and another one is not
C14_Witness ==
    /\ fpc = "filtered"
    /\ Len(buybacks) = 2
    /\ Len(allBurns) = 3

\* the sender of record b, as the provider or the file gave it
GivenSender(b) ==
    IF b.id <= MaxTxs THEN txs[b.id].addr ELSE diskBurns[b.id - MaxTxs].f

\* C15: a record is selected exactly when it has a sender and the sender, as
\* the provider or the file gave it, is the LP address up to letter case.
C15_SelectsLpSender ==
    fpc = "filtered" =>
        \A i \in DOMAIN allBurns :
            (allBurns[i].id \in IdsOf(buybacks))
                <=> GivenSender(allBurns[i]).hex = lpPairAddress.hex

\* a checksummed sender is selected and a record without f is not
C15_Witness ==
    /\ fpc = "filtered"
    /\ \E i \in DOMAIN allBurns :
          /\ allBurns[i].id \in IdsOf(buybacks)
          /\ GivenSender(allBurns[i]).upper
    /\ \E i \in DOMAIN allBurns :
          /\ allBurns[i].id \notin IdsOf(buybacks)
          /\ GivenSender(allBurns[i]) = Undefined


(***************************************************************************)
(* Request helpers with retry: fetchAPI of the CoinGecko fetcher and the   *)
(* two fetchWithRetry of the burn-history scripts.  A response is its      *)
(* status (0: fetch itself rejected) and the kind of its body.             *)
(***************************************************************************)
\* largest second argument tried
MaxRetries == 3

\* sleep(60000) after a 429
RateLimitDelay == 60000

\* base of the wait after a failed attempt
BackoffDelay == 2000

HttpResponses ==
    {[status |-> 200, body |-> "json"],
     [status |-> 200, body |-> "json_ise"],
     [status |-> 200, body |-> "html"],
     [status |-> 200, body |-> "text"],
     [status |-> 429, body |-> "json"],
     [status |-> 429, body |-> "html"],
     [status |-> 500, body |-> "json"],
     [status |-> 500, body |-> "html"],
     [status |-> 0,   body |-> "none"]}

\* response.ok
Ok(resp) == resp.status >= 200 /\ resp.status <= 299

\* JSON.parse(text) / response.json() succeeds; "json_ise" is a JSON
\* document with the words Internal Server Error in it
ParsesAsJson(resp) == resp.body \in {"json", "json_ise"}

\* text.startsWith('<')
StartsWithTag(resp) == resp.body = "html"

\* text.includes('Internal Server Error')
IncludesISE(resp) == resp.body = "json_ise"

NoValue == [kind |-> "none", of |-> 0]

\* the value of the body of the k-th response, parsed
Parsed(k) == [kind |-> "json", of |-> k]

\* What one attempt of each function does with its response: [to, value,
\* wait] where to is "return", "throw", "sleep" (then next attempt).
fetchAPI_ThrowOn429(resp, attempt_, retries_) ==
    IF resp.status # 0 /\ Ok(resp) /\ ParsesAsJson(resp)
        THEN [to |-> "return", value |-> Parsed(attempt_), wait |-> 0]
    ELSE IF attempt_ = retries_
        THEN [to |-> "throw", value |-> NoValue, wait |-> 0]
    ELSE [to |-> "sleep", value |-> NoValue, wait |-> BackoffDelay * attempt_]

fetchAPI(resp, attempt_, retries_) ==
    IF resp.status = 429
        THEN [to |-> "sleep", value |-> NoValue, wait |-> RateLimitDelay]
    ELSE IF resp.status # 0 /\ Ok(resp) /\ ParsesAsJson(resp)
        THEN [to |-> "return", value |-> Parsed(attempt_), wait |-> 0]
    ELSE IF attempt_ = retries_
        THEN [to |-> "throw", value |-> NoValue, wait |-> 0]
    ELSE [to |-> "sleep", value |-> NoValue, wait |-> BackoffDelay * attempt_]

\* fetch-burn-history.js; i of the code is attempt - 1
fetchWithRetry(resp, attempt_, retries_) ==
    IF /\ resp.status # 0 /\ Ok(resp)
       /\ ~(StartsWithTag(resp) \/ IncludesISE(resp))
       /\ ParsesAsJson(resp)
        THEN [to |-> "return", value |-> Parsed(attempt_), wait |-> 0]
    ELSE IF attempt_ - 1 < retries_ - 1
        THEN [to |-> "sleep", value |-> NoValue, wait |-> BackoffDelay * attempt_]
    ELSE [to |-> "next", value |-> NoValue, wait |-> 0]

\* the OPTIMIZED script
fetchWithRetryOpt(resp, attempt_, retries_) ==
    IF resp.status # 0 /\ ~StartsWithTag(resp) /\ ParsesAsJson(resp)
        THEN [to |-> "return", value |-> Parsed(attempt_), wait |-> 0]
    ELSE IF attempt_ - 1 < retries_ - 1
        THEN [to |-> "sleep", value |-> NoValue, wait |-> BackoffDelay]
    ELSE [to |-> "next", value |-> NoValue, wait |-> 0]

\* value of a call whose loop ran out: fetchAPI falls off its end,
\* fetchWithRetry has return null
RanOut(fn_) ==
    IF fn_ = "fetchAPI" THEN [kind |-> "undefined", of |-> 0]
    ELSE [kind |-> "null", of |-> 0]

\* ---- SpecRetry ------------------------------------------------------------
Endpoints == {"pools", "trades"}

InitRetry ==
    /\ fn \in {"fetchAPI", "fetchWithRetry", "fetchWithRetryOpt"}
    /\ endpoint \in Endpoints
    /\ retries \in 1..MaxRetries
    /\ attempt = 1
    /\ requests = <<>>
    /\ slept = <<>>
    /\ delivered = <<>>
    /\ rstate = "request"
    /\ CoreIdle
    /\ AuxIdleExcept("retry")

\* one pass of the loop body: the request, and what follows from its response
Attempt(step) ==
    /\ delivered' = IF step.to = "return" THEN Append(delivered, step.value)
                    ELSE IF step.to = "next" /\ attempt = retries
                        THEN Append(delivered, RanOut(fn))
                    ELSE delivered
    /\ slept' = IF step.to = "sleep" THEN Append(slept, step.wait) ELSE slept
    /\ rstate' = CASE step.to = "return" -> "returned"
                   [] step.to = "throw"  -> "thrown"
                   [] step.to = "sleep"  -> "wait"
                   [] step.to = "next"   -> "returned"
    /\ UNCHANGED <<fn, endpoint, retries, attempt>>
    /\ UNCHANGED <<mergeVars, periodVars, runVars>>
    /\ AuxUnchangedExcept("retry")

FetchApiAttempt ==
    /\ fn = "fetchAPI" /\ rstate = "request"
    /\ \E resp \in HttpResponses :
          /\ requests' = Append(requests, [url |-> endpoint, resp |-> resp])
          /\ Attempt(fetchAPI(resp, attempt, retries))

FetchWithRetryAttempt ==
    /\ fn = "fetchWithRetry" /\ rstate = "request"
    /\ \E resp \in HttpResponses :
          /\ requests' = Append(requests, [url |-> endpoint, resp |-> resp])
          /\ Attempt(fetchWithRetry(resp, attempt, retries))

FetchWithRetryOptAttempt ==
    /\ fn = "fetchWithRetryOpt" /\ rstate = "request"
    /\ \E resp \in HttpResponses :
          /\ requests' = Append(requests, [url |-> endpoint, resp |-> resp])
          /\ Attempt(fetchWithRetryOpt(resp, attempt, retries))

\* the timer fires: the loop goes to its next pass, or ends
SleepDone ==
    /\ rstate = "wait"
    /\ IF attempt < retries
          THEN /\ attempt' = attempt + 1
               /\ rstate' = "request"
               /\ UNCHANGED delivered
          ELSE /\ rstate' = "returned"
               /\ delivered' = Append(delivered, RanOut(fn))
               /\ UNCHANGED attempt
    /\ UNCHANGED <<fn, endpoint, retries, requests, slept>>
    /\ UNCHANGED <<mergeVars, periodVars, runVars>>
    /\ AuxUnchangedExcept("retry")

NextRetry ==
    FetchApiAttempt \/ FetchWithRetryAttempt \/ FetchWithRetryOptAttempt \/ SleepDone

SpecRetry == InitRetry /\ [][NextRetry]_vars


\* C16: in fetchAPI a 429 makes the call wait the fixed delay and, while
\* attempts remain, request the same endpoint again; a call issues at most
\* `retries` requests; a 429 followed by a good response hands the caller
\* the second body, once.
C16_RateLimitRetry ==
    fn = "fetchAPI" =>
        /\ Len(requests) <= retries
        /\ \A k \in DOMAIN requests :
              /\ requests[k].url = endpoint
              /\ requests[k].resp.status = 429 =>
                    /\ Len(slept) >= k
                    /\ slept[k] = RateLimitDelay
                    /\ (k < retries /\ rstate \in {"returned", "thrown"})
                          => Len(requests) > k
        /\ ( /\ Len(requests) >= 2
             /\ requests[1].resp.status = 429
             /\ requests[2].resp = [status |-> 200, body |-> "json"] )
              => (delivered = <<Parsed(2)>> /\ rstate = "returned")

\* first attempt 429, second good
C16_Witness ==
    /\ fn = "fetchAPI"
    /\ Len(requests) = 2
    /\ requests[1].resp.status = 429
    /\ requests[2].resp = [status |-> 200, body |-> "json"]
    /\ slept = <<RateLimitDelay>>
    /\ delivered = <<Parsed(2)>>


\* a response the specification counts as a failed attempt: none at all, a
\* status outside 2xx, or a body that is not JSON
FailedResponse(resp) == resp.status = 0 \/ ~Ok(resp) \/ ~ParsesAsJson(resp)

\* a response that is a success on any reading: 2xx, JSON and not a server
\* error page
GoodResponse(resp) == ~FailedResponse(resp) /\ ~IncludesISE(resp)

\* C18: fetchWithRetry never throws and issues at most `retries` requests;
\* it returns the parsed body of the first successful response, never that
\* of a non-2xx or non-JSON one, and returns null only after `retries`
\* responses none of which was a success.
C18_FailuresRetried ==
    fn \in {"fetchWithRetry", "fetchWithRetryOpt"} =>
        /\ rstate # "thrown"
        /\ Len(requests) <= retries
        /\ rstate = "returned" =>
              LET n == Len(requests)
              IN  /\ \A k \in 1..(n - 1) : ~GoodResponse(requests[k].resp)
                  /\ \/ /\ delivered = <<Parsed(n)>>
                        /\ ~FailedResponse(requests[n].resp)
                     \/ /\ delivered = <<[kind |-> "null", of |-> 0]>>
                        /\ n = retries
                        /\ ~GoodResponse(requests[n].resp)


(***************************************************************************)
(* Whole runs of the scripts: the credential check, the reads of the       *)
(* persisted files, the fetcher calls and the writes, in the order of each *)
(* script's top level and main.                                            *)
(*   "burn"      scripts/fetch-burn-history.js, Moralis version            *)
(*   "split"     the split-files version of it                             *)
(*   "coingecko" scripts/fetch-coingecko-data.js                           *)
(*   "holders"   collect-holders.js                                        *)
(*   "metrics"   the metrics collector                                     *)
(***************************************************************************)
\* most pools fetchTokenPools returns for a token
MaxPools == 1
\* most events of one run (fetchAllBurns asks again for a failed page)
MaxLog == 20

Scripts == {"burn", "split", "coingecko", "holders", "metrics"}

\* the statements of a script in program order
Stages_WriteFirst(script_) ==
    CASE script_ \in {"burn", "split", "coingecko"} ->
            <<"check", "load", "write", "fetch">>
      [] script_ = "metrics" -> <<"load", "write", "fetch">>
      [] script_ = "holders" -> <<"write", "fetch", "load">>

Stages(script_) ==
    CASE script_ \in {"burn", "split", "coingecko"} ->
            <<"check", "load", "fetch", "write">>
      [] script_ = "metrics" -> <<"load", "fetch", "write">>
      [] script_ = "holders" -> <<"fetch", "load", "write">>

\* if (!KEY) { console.error(...); process.exit(1) }
ExitsWithoutKey_OnlyMoralis(script_) == script_ \in {"burn", "split"}

ExitsWithoutKey(script_) == script_ \in {"burn", "split", "coingecko"}

\* files read by loadExisting... / loadHistory / loadMetricsHistory
Inputs(script_) ==
    CASE script_ = "burn"      -> <<"burn-history.json">>
      [] script_ = "split"     -> <<"burn-summary.json", "ptgc-burns.json", "ufo-burns.json">>
      [] script_ = "coingecko" -> <<"liquidity-history.json", "transaction-history.json",
                                    "tokensinlp-history.json">>
      [] script_ = "holders"   -> <<"holder-history.json">>
      [] script_ = "metrics"   -> <<"metrics-history.json">>

\* files written by writeFileSync / saveData
Outputs(script_) ==
    CASE script_ = "burn"      -> <<"burn-history.json">>
      [] script_ = "split"     -> <<"ptgc-burns.json", "ufo-burns.json", "burn-summary.json">>
      [] script_ = "coingecko" -> <<"liquidity-history.json", "transaction-history.json",
                                    "tokensinlp-history.json", "coingecko-data.json">>
      [] script_ = "holders"   -> <<"holder-history.json">>
      [] script_ = "metrics"   -> <<"metrics-history.json">>

\* fetchTokenData's calls before the pool loop
TokenCalls ==
    <<"fetchPriceChanges", "fetchHolderCount", "fetchTokensInLP", "fetchTokenPools">>

\* the pool loop's calls for n pools
RECURSIVE PoolCalls(_)
PoolCalls(n) ==
    IF n = 0 THEN <<>>
    ELSE <<"fetchPoolInfo", "fetchOHLCV", "fetchTrades">> \o PoolCalls(n - 1)

\* fetchRHCorePriceChanges: one call per entry of CONFIG.rhCores
RHCoreCalls ==
    <<"fetchPriceChanges", "fetchPriceChanges", "fetchPriceChanges",
      "fetchPriceChanges", "fetchPriceChanges">>

\* the fetcher calls of main that do not depend on a result
Plan(script_) ==
    CASE script_ = "burn" ->
            <<"fetchAllBurns", "fetchAllBurns", "fetchTokenPrice", "fetchTokenPrice",
              "fetchTokenPairs", "fetchTokenPairs", "fetchHolderCount", "fetchHolderCount">>
      [] script_ = "split" ->
            <<"fetchAllBurns", "fetchAllBurns", "fetchTokenPrice", "fetchTokenPrice",
              "fetchVolumeStats", "fetchVolumeStats", "fetchTokenPairs", "fetchTokenPairs",
              "fetchHolderCount", "fetchHolderCount",
              "fetchTransactionCount", "fetchTransactionCount">>
      [] script_ = "coingecko" -> TokenCalls \o TokenCalls \o RHCoreCalls
      [] script_ = "holders" -> <<"fetchHolderCount", "fetchHolderCount">>
      [] script_ = "metrics" -> <<"fetchDexScreener", "fetchDexScreener">>

\* how a request ends: usable JSON; a helper that gives up and returns
\* null/undefined, or JSON without the expected field; an exception
Outcomes == {"ok", "empty", "throw"}

\* What a fetcher call does with the outcome of its request:
\*   nets   requests it issues (0 or 1, a retried request counting once)
\*   to     "value" the fetcher returns, "throw" it lets the exception
\*          through, "again" it asks for the same page again
\*   value  "data" or the fetcher's default
\*   then   calls that follow because of the result
Fetcher(script_, call, outcome, keySet_, pools) ==
    CASE script_ = "coingecko" ->
            \* every fetcher wraps its request in try/catch
            IF outcome = "ok"
                THEN [nets |-> 1, to |-> "value", value |-> "data",
                      then |-> IF call = "fetchTokenPools" THEN PoolCalls(pools) ELSE <<>>]
                ELSE [nets |-> 1, to |-> "value",
                      value |-> IF call \in {"fetchTokenPools", "fetchOHLCV", "fetchTrades"}
                                    THEN "[]" ELSE "null",
                      then |-> <<>>]
      [] script_ = "holders" ->
            \* fetch and response.json() outside any try; parseInt(...) || 0
            IF outcome = "ok"
                THEN [nets |-> 1, to |-> "value", value |-> "data", then |-> <<>>]
            ELSE IF outcome = "empty"
                THEN [nets |-> 1, to |-> "value", value |-> "0", then |-> <<>>]
            ELSE [nets |-> 1, to |-> "throw", value |-> "none", then |-> <<>>]
      [] script_ = "metrics" ->
            IF call = "fetchDexScreener"
                THEN IF outcome = "ok"
                        THEN [nets |-> 1, to |-> "value", value |-> "data",
                              then |-> <<"fetchHolderCount">>]
                        ELSE [nets |-> 1, to |-> "value", value |-> "null", then |-> <<>>]
            ELSE IF call = "fetchHolderCount"
                THEN IF ~keySet_
                        THEN [nets |-> 0, to |-> "value", value |-> "null",
                              then |-> <<"fetchHolderCountPulseScan">>]
                     ELSE IF outcome = "ok"
                        THEN [nets |-> 1, to |-> "value", value |-> "data", then |-> <<>>]
                     ELSE [nets |-> 1, to |-> "value", value |-> "null",
                           then |-> <<"fetchHolderCountPulseScan">>]
            ELSE IF outcome = "ok"
                THEN [nets |-> 1, to |-> "value", value |-> "data", then |-> <<>>]
            ELSE [nets |-> 1, to |-> "value", value |-> "null", then |-> <<>>]
      [] script_ \in {"burn", "split"} ->
            \* moralisRequest returns null on any failure
            IF outcome = "ok"
                THEN [nets |-> 1, to |-> "value", value |-> "data", then |-> <<>>]
            ELSE IF call = "fetchAllBurns"
                THEN [nets |-> 1, to |-> "again", value |-> "none", then |-> <<>>]
            ELSE [nets |-> 1, to |-> "value",
                  value |-> IF call \in {"fetchHolderCount", "fetchTransactionCount"}
                                THEN "0" ELSE "{}",
                  then |-> <<>>]

Event(ev, what) == [ev |-> ev, what |-> what]

EventsOf(ev, names) == [i \in DOMAIN names |-> Event(ev, names[i])]

\* ---- SpecScripts ----------------------------------------------------------
InitScripts ==
    /\ script \in Scripts
    /\ keySet \in BOOLEAN
    /\ stage = 1
    /\ sstate = "run"
    /\ todo = Plan(script)
    /\ log = <<>>
    /\ lastCall = <<>>
    /\ failures = 0
    /\ CoreIdle
    /\ AuxIdleExcept("scripts")

AtStage(name) ==
    /\ sstate = "run"
    /\ stage \in DOMAIN Stages(script)
    /\ Stages(script)[stage] = name

ScriptFrame ==
    /\ UNCHANGED <<script, keySet>>
    /\ UNCHANGED <<mergeVars, periodVars, runVars>>
    /\ AuxUnchangedExcept("scripts")

\* the check of the key variable
CheckKey ==
    /\ AtStage("check")
    /\ IF ~keySet /\ ExitsWithoutKey(script)
          THEN /\ sstate' = "exit1"
               /\ log' = Append(log, Event("exit", "1"))
               /\ UNCHANGED stage
          ELSE /\ stage' = stage + 1
               /\ UNCHANGED <<sstate, log>>
    /\ UNCHANGED <<todo, lastCall, failures>>
    /\ ScriptFrame

\* the loads of the existing files
LoadFiles ==
    /\ AtStage("load")
    /\ log' = log \o EventsOf("read", Inputs(script))
    /\ stage' = stage + 1
    /\ UNCHANGED <<sstate, todo, lastCall, failures>>
    /\ ScriptFrame

\* one fetcher call of main
FetcherCall ==
    /\ AtStage("fetch")
    /\ todo # <<>>
    /\ \E outcome \in Outcomes, pools \in 0..MaxPools :
          LET call == Head(todo)
              f    == Fetcher(script, call, outcome, keySet, pools)
              rest == IF f.to = "again" THEN todo ELSE f.then \o Tail(todo)
          IN  /\ f.to = "again" => Len(log) < MaxLog
              /\ log' = IF f.nets = 1 THEN Append(log, Event("net", call)) ELSE log
              /\ lastCall' = [call |-> call,
                              outcome |-> IF f.nets = 0 THEN "none" ELSE outcome,
                              value |-> f.value]
              /\ failures' = IF f.nets = 1 /\ outcome # "ok"
                                THEN failures + 1 ELSE failures
              /\ IF f.to = "throw"
                    THEN /\ sstate' = "rejected"
                         /\ UNCHANGED <<stage, todo>>
                    ELSE /\ todo' = rest
                         /\ stage' = IF rest = <<>> THEN stage + 1 ELSE stage
                         /\ UNCHANGED sstate
    /\ ScriptFrame

\* the writes of the output files
WriteFiles ==
    /\ AtStage("write")
    /\ log' = log \o EventsOf("write", Outputs(script))
    /\ stage' = stage + 1
    /\ UNCHANGED <<sstate, todo, lastCall, failures>>
    /\ ScriptFrame

\* main returns
Finish ==
    /\ sstate = "run"
    /\ stage = Len(Stages(script)) + 1
    /\ sstate' = "done"
    /\ UNCHANGED <<stage, todo, log, lastCall, failures>>
    /\ ScriptFrame

NextScripts == CheckKey \/ LoadFiles \/ FetcherCall \/ WriteFiles \/ Finish

SpecScripts == InitScripts /\ [][NextScripts]_vars


WrittenFiles == {log[i].what : i \in {j \in DOMAIN log : log[j].ev = "write"}}

\* C17: a request that failed never ends the run: the fetcher returns
\* something other than data (its default), main is not rejected, and a run
\* that ends has written every output file.
C17_FailureNotFatal ==
    /\ sstate # "rejected"
    /\ (lastCall # <<>> /\ lastCall.outcome \in {"empty", "throw"})
          => lastCall.value # "data"
    /\ sstate = "done" => WrittenFiles = Range(Outputs(script))


EventsAt(ev) == {i \in DOMAIN log : log[i].ev = ev}

\* C19: a script that requires an API key (the burn-history scripts, the
\* CoinGecko fetcher) and finds none exits with status 1 before any request
\* and any write, and exits so only then; the metrics collector, which can
\* do without its key, goes on but sends no request to Moralis.
C19_CheckedKeyExits ==
    /\ (~keySet /\ script \in {"burn", "split", "coingecko"}) =>
          /\ EventsAt("net") = {}
          /\ EventsAt("write") = {}
          /\ sstate \in {"run", "exit1"}
          /\ sstate = "run" => stage = 1
    /\ sstate = "exit1" =>
          /\ ~keySet
          /\ log = <<Event("exit", "1")>>
    /\ (~keySet /\ script = "metrics") =>
          /\ \A i \in EventsAt("net") : log[i].what # "fetchHolderCount"
          /\ sstate # "exit1"

\* the CoinGecko fetcher has exited for want of its key
C19_Witness ==
    /\ script = "coingecko"
    /\ ~keySet
    /\ sstate = "exit1"
    /\ log = <<Event("exit", "1")>>

\* C20 as stated: every read of a persisted file comes before the first
\* request and every write after the last; a run that fails has written
\* nothing.
C20_ReadFirstWriteLast ==
    /\ \A r \in EventsAt("read"), n \in EventsAt("net") : r < n
    /\ \A w \in EventsAt("write"), n \in EventsAt("net") : n < w
    /\ sstate \in {"rejected", "exit1"} => EventsAt("write") = {}

\* C20, amended: every write comes after the last request and after every
\* read; reads come before the first request except in collect-holders,
\* which reads its history after its requests; a run that fails has written
\* nothing.
C20_WriteLast ==
    /\ \A w \in EventsAt("write"), n \in EventsAt("net") : n < w
    /\ \A w \in EventsAt("write"), r \in EventsAt("read") : r < w
    /\ \A r \in EventsAt("read"), n \in EventsAt("net") :
          IF script = "holders" THEN n < r ELSE r < n
    /\ sstate \in {"rejected", "exit1"} => EventsAt("write") = {}
    /\ sstate = "done" =>
          /\ {log[i].what : i \in EventsAt("write")} = Range(Outputs(script))
          /\ {log[i].what : i \in EventsAt("read")} = Range(Inputs(script))

\* collect-holders has fetched, then read, then written
C20_Witness ==
    /\ script = "holders"
    /\ sstate = "done"
    /\ EventsAt("net") = {1, 2}
    /\ EventsAt("read") = {3}
    /\ EventsAt("write") = {4}


(***************************************************************************)
(* The driver loops and their requests in time: a request is issued, and   *)
(* completes later; the continuation after an await runs only when the     *)
(* awaited request or timer has completed.                                 *)
(***************************************************************************)
\* most pages a treasury fetcher asks for (with the repeats of failed pages)
MaxDriverPages == 3

\* the treasury main's calls for one wallet
WalletCalls ==
    <<"fetchWalletTransactions", "fetchWalletTokenTransfers",
      "fetchWalletBalances", "fetchNativeBalance">>

DriverCalls(drv_) ==
    IF drv_ = "coingecko" THEN TokenCalls \o TokenCalls
    ELSE WalletCalls \o WalletCalls

\* most requests one call issues: fetchAPI's retries = 3, one fetch in the
\* fetchers without retry, one request per page in the paginated ones
RequestLimit(drv_, call) ==
    IF drv_ = "coingecko"
        THEN IF call \in {"fetchHolderCount", "fetchTokensInLP"} THEN 1 ELSE 3
    ELSE IF call \in {"fetchWalletTransactions", "fetchWalletTokenTransfers"}
        THEN MaxDriverPages
    ELSE 1

\* the loop is at a statement that issues a request (not suspended in await)
CanIssue_FireAndForget(dphase_) == dphase_ \in {"ready", "awaiting"}

CanIssue(dphase_) == dphase_ = "ready"

\* ---- SpecDriver -----------------------------------------------------------
InitDriver ==
    /\ drv \in {"coingecko", "treasury"}
    /\ calls = DriverCalls(drv)
    /\ dphase = "ready"
    /\ dattempt = 0
    /\ issued = 0
    /\ inflight = {}
    /\ CoreIdle
    /\ AuxIdleExcept("driver")

DriverFrame ==
    /\ UNCHANGED drv
    /\ UNCHANGED <<mergeVars, periodVars, runVars>>
    /\ AuxUnchangedExcept("driver")

\* await fetch(url, ...): the request leaves
IssueRequest ==
    /\ CanIssue(dphase)
    /\ calls # <<>>
    /\ dattempt < RequestLimit(drv, Head(calls))
    /\ issued' = issued + 1
    /\ inflight' = inflight \cup {issued + 1}
    /\ dattempt' = dattempt + 1
    /\ dphase' = "awaiting"
    /\ UNCHANGED calls
    /\ DriverFrame

\* the response (or the failure) arrives and the function goes on: it
\* sleeps and asks again (a retry, the next page), or returns and the loop
\* sleeps before its next call
CompleteRequest ==
    /\ dphase = "awaiting"
    /\ \E id \in inflight, more \in BOOLEAN, pools \in 0..MaxPools :
          /\ inflight' = inflight \ {id}
          /\ IF more /\ dattempt < RequestLimit(drv, Head(calls))
                THEN UNCHANGED <<calls, dattempt>>
                ELSE /\ calls' = (IF drv = "coingecko" /\ Head(calls) = "fetchTokenPools"
                                     THEN PoolCalls(pools) ELSE <<>>) \o Tail(calls)
                     /\ dattempt' = 0
    /\ dphase' = "sleeping"
    /\ UNCHANGED issued
    /\ DriverFrame

\* await sleep(...) / await delay(...) is over
TimerDone ==
    /\ dphase = "sleeping"
    /\ dphase' = IF calls = <<>> THEN "done" ELSE "ready"
    /\ UNCHANGED <<calls, dattempt, issued, inflight>>
    /\ DriverFrame

NextDriver == IssueRequest \/ CompleteRequest \/ TimerDone

SpecDriver == InitDriver /\ [][NextDriver]_vars

\* C21: at most one request is in flight at any moment, and a request is
\* issued only when none is in flight.
C21_OneInFlight ==
    /\ Cardinality(inflight) <= 1
    /\ dphase \in {"ready", "sleeping", "done"} => inflight = {}

\* the second wallet's first request is in flight, alone, after the first
\* wallet's requests
C21_Witness ==
    /\ drv = "treasury"
    /\ Len(calls) = Len(WalletCalls)
    /\ issued > Len(WalletCalls)
    /\ inflight = {issued}


(***************************************************************************)
(* Period files of the split-files script.  Time is scaled: one unit is    *)
(* the shortest period; 1 stands for 2023-05-01 and 7 for 2030-01-01, so   *)
(* that 0 is a time before the first period and 7 and later after the      *)
(* last.                                                                   *)
(***************************************************************************)
\* latest timestamp tried
MaxStamp == 8
\* most burns of a history
MaxHistory == 2

PERIODS ==
    << [key |-> "2023-h2", start |-> 1, end |-> 2],
       [key |-> "2024-h1", start |-> 2, end |-> 3],
       [key |-> "2024-h2", start |-> 3, end |-> 4],
       [key |-> "2025-h1", start |-> 4, end |-> 5],
       [key |-> "2025-h2", start |-> 5, end |-> 6],
       [key |-> "2026",    start |-> 6, end |-> 7] >>

PeriodKeys == {PERIODS[i].key : i \in DOMAIN PERIODS}

\* for (const [key, range] of Object.entries(PERIODS)) ... return '2026'
getPeriodKey_FirstPeriod(timestamp) ==
    LET hits == {i \in DOMAIN PERIODS :
                    timestamp >= PERIODS[i].start /\ timestamp < PERIODS[i].end}
    IN  IF hits = {} THEN "2023-h2"
        ELSE PERIODS[CHOOSE i \in hits : \A j \in hits : i <= j].key

getPeriodKey(timestamp) ==
    LET hits == {i \in DOMAIN PERIODS :
                    timestamp >= PERIODS[i].start /\ timestamp < PERIODS[i].end}
    IN  IF hits = {} THEN "2026"
        ELSE PERIODS[CHOOSE i \in hits : \A j \in hits : i <= j].key

\* byPeriod[period] = [] for every period, then byPeriod[key].push(burn)
splitBurnsByPeriod(burns_) ==
    [k \in PeriodKeys |->
        FilterAt(burns_, {i \in DOMAIN burns_ : getPeriodKey(burns_[i].t) = k})]

NoFile == [exists |-> FALSE, burns |-> <<>>]

\* burns.map(b => ({ t: b.t, a: b.a, f: b.f })), through JSON
FileRecords(burns_) ==
    [i \in DOMAIN burns_ |-> [t |-> burns_[i].t, a |-> burns_[i].a, f |-> burns_[i].f]]

\* for each period: if (burns.length === 0) continue; writeFileSync(...)
WritePeriodFiles(byPeriod_, files) ==
    [k \in PeriodKeys |->
        IF byPeriod_[k] = <<>> THEN files[k]
        ELSE [exists |-> TRUE, burns |-> FileRecords(byPeriod_[k])]]

\* allBurns = allBurns.concat(data.burns) over the periods in order
RECURSIVE ConcatFiles(_, _)
ConcatFiles(files, n) ==
    IF n = 0 THEN <<>>
    ELSE ConcatFiles(files, n - 1) \o
            (IF files[PERIODS[n].key].exists THEN files[PERIODS[n].key].burns ELSE <<>>)

loadExistingBurns_NoSort(files) == ConcatFiles(files, Len(PERIODS))

loadExistingBurns(files) == SortByT(ConcatFiles(files, Len(PERIODS)))

\* ---- SpecSplit ------------------------------------------------------------
SplitRecords == {[t |-> t, a |-> 1, f |-> f] : t \in 0..MaxStamp, f \in {"0xlp", ""}}

\* histories as fetchAllBurns returns them: newest first
SplitHistories ==
    {h \in SeqsUpTo(SplitRecords, MaxHistory) :
        \A i \in 1..(Len(h) - 1) : h[i].t >= h[i + 1].t}

\* the files an earlier run left: written from an earlier state of the
\* history, which the run's history contains
InitSplit ==
    /\ ptgcBurns \in SplitHistories
    /\ \E earlier \in SUBSET (DOMAIN ptgcBurns) :
          periodFiles =
              WritePeriodFiles(splitBurnsByPeriod(FilterAt(ptgcBurns, earlier)),
                               [k \in PeriodKeys |-> NoFile])
    /\ byPeriod = <<>>
    /\ loadedBurns = <<>>
    /\ spc = "in"
    /\ CoreIdle
    /\ AuxIdleExcept("split")

\* main: split, then write the period files
SplitAndWrite ==
    /\ spc = "in"
    /\ byPeriod' = splitBurnsByPeriod(ptgcBurns)
    /\ periodFiles' = WritePeriodFiles(splitBurnsByPeriod(ptgcBurns), periodFiles)
    /\ spc' = "written"
    /\ UNCHANGED <<ptgcBurns, loadedBurns>>
    /\ UNCHANGED <<mergeVars, periodVars, runVars>>
    /\ AuxUnchangedExcept("split")

\* the following run loads the files
LoadPeriodFiles ==
    /\ spc = "written"
    /\ loadedBurns' = loadExistingBurns(periodFiles)
    /\ spc' = "loaded"
    /\ UNCHANGED <<ptgcBurns, byPeriod, periodFiles>>
    /\ UNCHANGED <<mergeVars, periodVars, runVars>>
    /\ AuxUnchangedExcept("split")

NextSplit == SplitAndWrite \/ LoadPeriodFiles

SpecSplit == InitSplit /\ [][NextSplit]_vars

InPeriod(k, t) ==
    \E i \in DOMAIN PERIODS :
        PERIODS[i].key = k /\ PERIODS[i].start <= t /\ t < PERIODS[i].end

\* occurrences of record r in a list
CountIn(seq, r) == Cardinality({i \in DOMAIN seq : seq[i] = r})

BucketCount(r) ==
    Cardinality({<<k, i>> \in PeriodKeys \X (1..MaxHistory) :
                    i \in DOMAIN byPeriod[k] /\ byPeriod[k][i] = r})

\* C22 as stated: every burn is in exactly one bucket, and the range of that
\* bucket contains its timestamp.
C22_BucketContainsStamp ==
    spc \in {"written", "loaded"} =>
        /\ \A r \in SplitRecords : BucketCount(r) = CountIn(ptgcBurns, r)
        /\ \A k \in PeriodKeys : \A i \in DOMAIN byPeriod[k] :
              InPeriod(k, byPeriod[k][i].t)

\* C22, amended: every burn is in exactly one bucket: the one whose range
\* contains its timestamp, or "2026" when no range does.
C22_BucketOrDefault ==
    spc \in {"written", "loaded"} =>
        /\ \A r \in SplitRecords : BucketCount(r) = CountIn(ptgcBurns, r)
        /\ \A k \in PeriodKeys : \A i \in DOMAIN byPeriod[k] :
              \/ InPeriod(k, byPeriod[k][i].t)
              \/ /\ k = "2026"
                 /\ \A j \in PeriodKeys : ~InPeriod(j, byPeriod[k][i].t)

\* a burn on a period boundary and one after the last period
C22_Witness ==
    /\ spc = "written"
    /\ Len(byPeriod["2024-h1"]) = 1
    /\ byPeriod["2024-h1"][1].t = 2
    /\ Len(byPeriod["2026"]) = 1
    /\ byPeriod["2026"][1].t = 7


\* C30: the burns loaded back from the period files are the history that
\* was split and written: the same records the same number of times, newest
\* first, whatever period files an earlier run had left.
C30_RoundTrip ==
    spc = "loaded" =>
        /\ \A r \in SplitRecords : CountIn(loadedBurns, r) = CountIn(ptgcBurns, r)
        /\ Len(loadedBurns) = Len(ptgcBurns)
        /\ \A i \in 1..(Len(loadedBurns) - 1) : loadedBurns[i].t >= loadedBurns[i + 1].t

\* two burns of different periods came back, one of them from a file that
\* holds the period after the last
C30_Witness ==
    /\ spc = "loaded"
    /\ Len(loadedBurns) = 2
    /\ loadedBurns[1].t = 7
    /\ loadedBurns[2].t = 1
    /\ periodFiles["2026"].exists
    /\ periodFiles["2023-h2"].exists

----------------------------------------------------------------------------
(* SpecSnapshots: the daily snapshot list of one token, run after run.     *)
(* The Moralis script (src/scripts/fetch-burn-history.js:396-415), the v3  *)
(* script (lines 927-948) and the split-files script                       *)
(* (src/unnamed/part_001:609-634) build the list with the same expression. *)
(* A date is the number of its day; of a snapshot's values the holder      *)
(* count is followed.                                                      *)

\* .slice(0, 30), scaled down so that the model reaches it
SnapshotsKept == 2
\* last day followed
MaxDate == 5

HolderCounts == {1, 2}

\* const ptgcSnapshot = { date: today, holders: ptgcHolders, ... }
DaySnapshot(date, holders) == [date |-> date, holders |-> holders]

\* mutant: the entries of today's date are not filtered out
BuildSnapshots_KeepToday(snapshot_, existing_) ==
    Prefix(<<snapshot_>> \o existing_, SnapshotsKept)

\* [ptgcSnapshot, ...existingPTGCSnapshots.filter(s => s.date !== today)]
\*     .slice(0, 30)
BuildSnapshots(snapshot_, existing_) ==
    Prefix(<<snapshot_>> \o
               FilterAt(existing_, {i \in DOMAIN existing_ :
                                       existing_[i].date # snapshot_.date}),
           SnapshotsKept)

InitSnapshots ==
    /\ snapshotFile = <<>>
    /\ today = 1
    /\ existingSnapshots = <<>>
    /\ daySnapshot = DaySnapshot(0, 0)
    /\ npc = "new"
    /\ CoreIdle
    /\ AuxIdleExcept("snapshots")

\* one run of the script, on the day of the run before or later: load the
\* file (existingData?.PTGC?.snapshots || [] is empty when the file could
\* not be read), build the list, write it
SnapshotRun ==
    /\ npc \in {"new", "ran"}
    /\ \E date \in {today, today + 1, today + 2}, holders \in HolderCounts,
          readable \in BOOLEAN :
          /\ date <= MaxDate
          /\ today' = date
          /\ existingSnapshots' = IF readable THEN snapshotFile ELSE <<>>
          /\ daySnapshot' = DaySnapshot(date, holders)
          /\ snapshotFile' = BuildSnapshots(daySnapshot', existingSnapshots')
    /\ npc' = "ran"
    /\ UNCHANGED <<mergeVars, periodVars, runVars>>
    /\ AuxUnchangedExcept("snapshots")

NextSnapshots == SnapshotRun

SpecSnapshots == InitSnapshots /\ [][NextSnapshots]_vars

\* C27: after a run the snapshot list has at most SnapshotsKept entries and
\* at most one entry per date, its first entry is the snapshot of the run,
\* and its other entries are entries the run loaded; an entry of the run's
\* date that was loaded is therefore replaced.
C27_SnapshotList ==
    npc = "ran" =>
        /\ Len(snapshotFile) <= SnapshotsKept
        /\ \A i, j \in DOMAIN snapshotFile :
              snapshotFile[i].date = snapshotFile[j].date => i = j
        /\ snapshotFile # <<>> /\ snapshotFile[1] = daySnapshot
        /\ \A i \in 2..Len(snapshotFile) :
              snapshotFile[i] \in Range(existingSnapshots)

\* a second run on one date, with another holder count, on a full list
C27_Witness ==
    /\ npc = "ran"
    /\ Len(existingSnapshots) >= 2
    /\ existingSnapshots[1].date = today
    /\ existingSnapshots[1].holders # daySnapshot.holders
    /\ Len(snapshotFile) >= 2
    /\ snapshotFile[2] = existingSnapshots[2]

----------------------------------------------------------------------------
(* SpecWallet: the merge step of fetchWalletTransactions in the treasury   *)
(* script, src/unnamed/part_002:196-220.  A transaction is followed by its *)
(* hash, its timeStamp (the text of a number of seconds) and `copy`, which *)
(* stands for its other fields: "fetched" for a record built from the      *)
(* provider's response in this run, "stored" for one read from the file.   *)

\* most transactions in the stored list
MaxStoredTxns == 2
\* most transactions the run fetches
MaxNewTxns == 2

TxHashes == {"0xa", "0xb"}

\* Math.floor(...).toString(): the texts of 9, 10 and 11
TimeStampTexts == {"9", "10", "11"}

\* Number(tx.timeStamp)
Number(text) == CASE text = "9" -> 9 [] text = "10" -> 10 [] text = "11" -> 11

WalletTx(hash, timeStamp, copy) ==
    [hash |-> hash, timeStamp |-> timeStamp, copy |-> copy]

TxCopies(copy) == {WalletTx(h, t, copy) : h \in TxHashes, t \in TimeStampTexts}

\* the two `for (const tx of ...)` loops over one Set: push the
\* transactions whose hash was not seen
RECURSIVE DedupeByHash(_, _, _)
DedupeByHash(allTxns_, seenHashes, rest) ==
    IF rest = <<>> THEN allTxns_
    ELSE IF Head(rest).hash \notin seenHashes
         THEN DedupeByHash(Append(allTxns_, Head(rest)),
                           seenHashes \cup {Head(rest).hash}, Tail(rest))
         ELSE DedupeByHash(allTxns_, seenHashes, Tail(rest))

\* mutant: the stored transactions are pushed first
MergeTxns_ExistingFirst(existingTxns_, newTxns_) ==
    LET allTxns_ == DedupeByHash(<<>>, {}, existingTxns_ \o newTxns_)
    IN  SortKeyed([i \in DOMAIN allTxns_ |->
                      <<Number(allTxns_[i].timeStamp), allTxns_[i]>>])

\* new first, then existing, then
\* allTxns.sort((a, b) => Number(b.timeStamp) - Number(a.timeStamp))
MergeTxns(existingTxns_, newTxns_) ==
    LET allTxns_ == DedupeByHash(<<>>, {}, newTxns_ \o existingTxns_)
    IN  SortKeyed([i \in DOMAIN allTxns_ |->
                      <<Number(allTxns_[i].timeStamp), allTxns_[i]>>])

\* seconds of a timeStamp text, read off the text's digits
SecondsOf(text) == IF text = "9" THEN 9 ELSE IF text = "10" THEN 10 ELSE 11

\* a list the script wrote: newest first, no hash twice
IsTxList(list) ==
    /\ \A i, j \in DOMAIN list :
          i < j => SecondsOf(list[i].timeStamp) >= SecondsOf(list[j].timeStamp)
    /\ \A i, j \in DOMAIN list : list[i].hash = list[j].hash => i = j

InitWallet ==
    /\ existingTxns \in {l \in SeqsUpTo(TxCopies("stored"), MaxStoredTxns) :
                            IsTxList(l)}
    /\ newTxns \in SeqsUpTo(TxCopies("fetched"), MaxNewTxns)
    /\ allTxns = <<>>
    /\ allTxnsAgain = <<>>
    /\ wpc = "in"
    /\ CoreIdle
    /\ AuxIdleExcept("wallet")

\* the merge step of the run
MergeFetched ==
    /\ wpc = "in"
    /\ allTxns' = MergeTxns(existingTxns, newTxns)
    /\ wpc' = "merged"
    /\ UNCHANGED <<existingTxns, newTxns, allTxnsAgain>>
    /\ UNCHANGED <<mergeVars, periodVars, runVars>>
    /\ AuxUnchangedExcept("wallet")

\* the merge step of a run that loads the result and fetches the same list
MergeFetchedAgain ==
    /\ wpc = "merged"
    /\ allTxnsAgain' = MergeTxns(allTxns, newTxns)
    /\ wpc' = "again"
    /\ UNCHANGED <<existingTxns, newTxns, allTxns>>
    /\ UNCHANGED <<mergeVars, periodVars, runVars>>
    /\ AuxUnchangedExcept("wallet")

NextWallet == MergeFetched \/ MergeFetchedAgain

SpecWallet == InitWallet /\ [][NextWallet]_vars

HashesOf(list) == {list[i].hash : i \in DOMAIN list}

\* the first transaction of the list with the hash
FirstWithHash(list, hash) ==
    list[CHOOSE i \in DOMAIN list :
            /\ list[i].hash = hash
            /\ \A j \in 1..(i - 1) : list[j].hash # hash]

\* C28: the merged list is ordered by timestamp descending, holds no hash
\* twice and holds exactly the hashes of the stored and of the fetched list;
\* a hash that was fetched is there with its fetched copy; merging the same
\* fetched list into the result gives the result again.
C28_MergeByHash ==
    /\ wpc \in {"merged", "again"} =>
          /\ IsTxList(allTxns)
          /\ HashesOf(allTxns) = HashesOf(existingTxns) \cup HashesOf(newTxns)
          /\ \A i \in DOMAIN allTxns :
                allTxns[i].hash \in HashesOf(newTxns) =>
                    allTxns[i] = FirstWithHash(newTxns, allTxns[i].hash)
    /\ wpc = "again" => allTxnsAgain = allTxns

\* a hash stored and fetched with different timestamps, next to a stored
\* transaction that was not fetched, merged twice
C28_Witness ==
    /\ wpc = "again"
    /\ Len(existingTxns) = 2
    /\ Len(allTxns) = 2
    /\ \E i \in DOMAIN newTxns :
          /\ newTxns[i].hash = existingTxns[1].hash
          /\ newTxns[i].timeStamp = "9"
          /\ existingTxns[1].timeStamp = "11"
    /\ existingTxns[2].timeStamp = "10"
    /\ allTxns[1] = existingTxns[2]

----------------------------------------------------------------------------
(* SpecMetrics: main of the metrics collector, src/unnamed/part_003:364-   *)
(* 422, run after run over both tokens.  Time and values are those of      *)
(* SpecRollup.                                                             *)

\* time followed after the first run
MaxMetricsElapsed == 6

\* 24 * 60 * 60 * 1000 and 2 * 60 * 60 * 1000, scaled down with the cutoffs:
\* the target lies half a 30-minute cutoff back
ChangeTarget == 2
ChangeTolerance == 1

\* for (const [tokenName, tokenConfig] of Object.entries(TOKENS))
TokenNames == <<"PTGC", "UFO">>

\* collectTokenMetrics returned null
NullMetrics == [price |-> Frac(0, 1), volume24h |-> Frac(0, 1),
                liquidity |-> Frac(0, 1), liqMcapRatio |-> Frac(0, 1),
                holders |-> Null, tokensInLP |-> Frac(0, 1), isNull |-> TRUE]

CollectResults ==
    {NullMetrics} \cup {[price |-> m.price, volume24h |-> m.volume24h,
                         liquidity |-> m.liquidity,
                         liqMcapRatio |-> m.liqMcapRatio, holders |-> m.holders,
                         tokensInLP |-> m.tokensInLP, isNull |-> FALSE] :
                        m \in MetricSamples}

\* a change that is null
NullChange(zero) == [isNull |-> TRUE, value |-> zero]

\* changes24h is absent in the default structure
AbsentChanges ==
    [present |-> FALSE,
     volume24h |-> NullChange(<<0, 1>>), liquidity |-> NullChange(<<0, 1>>),
     liqMcapRatio |-> NullChange(<<0, 1>>), holders |-> NullChange(0),
     tokensInLP |-> NullChange(<<0, 1>>)]

\* "No snapshot within 2 hours of target, return null changes"
NullChanges == [AbsentChanges EXCEPT !.present = TRUE]

\* if (previous === null || previous === 0 || current === null) return null;
\* return ((current - previous) / previous) * 100
calcChange(current, previous) ==
    IF previous[1] = 0 THEN NullChange(<<0, 1>>)
    ELSE [isNull |-> FALSE,
          value |-> Frac((current[1] * previous[2] - previous[1] * current[2]) * 100,
                         previous[1] * current[2])]

Abs(x) == IF x < 0 THEN 0 - x ELSE x

\* calculate24hChanges(tokenData, currentMetrics) at new Date() = now_
calculate24hChanges(tokenData_, currentMetrics, now_) ==
    LET target == now_ - ChangeTarget
        all == tokenData_.snapshots \o tokenData_.hourly
        search[i \in 0..Len(all)] ==
            IF i = 0 THEN [closest |-> 0, closestDiff |-> -1]
            ELSE LET diff == Abs(all[i].timestamp - target)
                 IN  IF search[i - 1].closestDiff = -1
                        \/ diff < search[i - 1].closestDiff
                     THEN [closest |-> i, closestDiff |-> diff]
                     ELSE search[i - 1]
        found == search[Len(all)]
    IN  IF found.closest = 0 \/ found.closestDiff > ChangeTolerance
        THEN NullChanges
        ELSE LET closest == all[found.closest] IN
             [present |-> TRUE,
              volume24h |-> calcChange(currentMetrics.volume24h, closest.volume24h),
              liquidity |-> calcChange(currentMetrics.liquidity, closest.liquidity),
              liqMcapRatio |-> calcChange(currentMetrics.liqMcapRatio,
                                          closest.liqMcapRatio),
              holders |-> IF currentMetrics.holders # Null /\ closest.holders # Null
                          THEN [isNull |-> FALSE,
                                value |-> currentMetrics.holders - closest.holders]
                          ELSE NullChange(0),
              tokensInLP |-> calcChange(currentMetrics.tokensInLP,
                                        closest.tokensInLP)]

\* the default structure of loadMetricsHistory; lastUpdated: null is 0
DefaultHistory ==
    LET empty == [snapshots |-> <<>>, hourly |-> <<>>, daily |-> <<>>,
                  changes24h |-> AbsentChanges]
    IN  [lastUpdated |-> 0, PTGC |-> empty, UFO |-> empty]

\* mutant: a token whose metrics are null gets an empty history
UpdateToken_ResetOnNull(entry, metrics, timestamp) ==
    IF metrics.isNull
    THEN [snapshots |-> <<>>, hourly |-> <<>>, daily |-> <<>>,
          changes24h |-> NullChanges]
    ELSE LET rolled == rollupSnapshots(
                 [snapshots |-> <<Snapshot(timestamp, metrics)>> \o entry.snapshots,
                  hourly |-> entry.hourly, daily |-> entry.daily], timestamp)
         IN  [snapshots |-> rolled.snapshots, hourly |-> rolled.hourly,
              daily |-> rolled.daily,
              changes24h |-> calculate24hChanges(rolled, metrics, timestamp)]

\* the body of the loop for one token: history[tokenName] afterwards
UpdateToken(entry, metrics, timestamp) ==
    IF metrics.isNull
    THEN entry
    ELSE LET rolled == rollupSnapshots(
                 [snapshots |-> <<Snapshot(timestamp, metrics)>> \o entry.snapshots,
                  hourly |-> entry.hourly, daily |-> entry.daily], timestamp)
         IN  [snapshots |-> rolled.snapshots, hourly |-> rolled.hourly,
              daily |-> rolled.daily,
              changes24h |-> calculate24hChanges(rolled, metrics, timestamp)]

InitMetrics ==
    /\ metricsFile = DefaultHistory
    /\ history = DefaultHistory
    /\ loadedHistory = DefaultHistory
    /\ mclock = RollupStart
    /\ collected = <<>>
    /\ mstate = "idle"
    /\ CoreIdle
    /\ AuxIdleExcept("metrics")

\* main up to the loop: loadMetricsHistory, const timestamp
LoadMetrics ==
    /\ mstate = "idle"
    /\ mclock + NominalGap <= RollupStart + MaxMetricsElapsed
    /\ mclock' = mclock + NominalGap
    /\ history' = metricsFile
    /\ loadedHistory' = metricsFile
    /\ collected' = <<>>
    /\ mstate' = "loop"
    /\ UNCHANGED metricsFile
    /\ UNCHANGED <<mergeVars, periodVars, runVars>>
    /\ AuxUnchangedExcept("metrics")

\* one iteration of the loop over TOKENS
CollectToken ==
    /\ mstate = "loop"
    /\ Len(collected) < Len(TokenNames)
    /\ \E metrics \in CollectResults :
          LET tokenName == TokenNames[Len(collected) + 1]
          IN  /\ history' = [history EXCEPT
                                ![tokenName] = UpdateToken(@, metrics, mclock)]
              /\ collected' = Append(collected, metrics)
    /\ UNCHANGED <<metricsFile, loadedHistory, mclock, mstate>>
    /\ UNCHANGED <<mergeVars, periodVars, runVars>>
    /\ AuxUnchangedExcept("metrics")

\* history.lastUpdated = timestamp; fs.writeFileSync(METRICS_FILE, ...)
SaveMetrics ==
    /\ mstate = "loop"
    /\ Len(collected) = Len(TokenNames)
    /\ history' = [history EXCEPT !.lastUpdated = mclock]
    /\ metricsFile' = history'
    /\ mstate' = "idle"
    /\ UNCHANGED <<loadedHistory, mclock, collected>>
    /\ UNCHANGED <<mergeVars, periodVars, runVars>>
    /\ AuxUnchangedExcept("metrics")

NextMetrics == LoadMetrics \/ CollectToken \/ SaveMetrics

SpecMetrics == InitMetrics /\ [][NextMetrics]_vars

\* the run has written the file
MetricsWritten == mstate = "idle" /\ Len(collected) = Len(TokenNames)

\* C29: when a run is over, the file carries the run's timestamp as
\* lastUpdated; a token whose metrics were null has its snapshots, hourly,
\* daily and changes24h as they were loaded; a token whose metrics were
\* collected has the run's snapshot first and changes24h set.
C29_NullLeavesTokenAlone ==
    MetricsWritten =>
        /\ metricsFile.lastUpdated = mclock
        /\ \A k \in DOMAIN TokenNames :
              LET name == TokenNames[k] IN
              IF collected[k].isNull
              THEN metricsFile[name] = loadedHistory[name]
              ELSE /\ metricsFile[name] # loadedHistory[name]
                   /\ metricsFile[name].changes24h.present
                   /\ metricsFile[name].snapshots # <<>>
                   /\ metricsFile[name].snapshots[1].timestamp = mclock

\* PTGC's metrics were null in a run that found a PTGC history on disk, and
\* UFO was updated
C29_Witness ==
    /\ MetricsWritten
    /\ collected[1].isNull
    /\ ~collected[2].isNull
    /\ loadedHistory.PTGC.snapshots # <<>>
    /\ metricsFile.PTGC = loadedHistory.PTGC
    /\ metricsFile.UFO.snapshots[1].timestamp = mclock
    /\ metricsFile.lastUpdated > loadedHistory.lastUpdated

====
